---- MODULE Spec2Model ----
(***************************************************************************)
(* Catalog backend: materialized-path category tree, denormalized          *)
(* desc_product_count maintained by database triggers, and order placement.*)
(* The relational tables are functions from the SERIAL id to the row; each *)
(* q(...) call of the route handlers is one autocommitted statement, and a *)
(* trigger runs inside the statement that fires it.                        *)
(***************************************************************************)
EXTENDS Integers, Sequences, FiniteSets, TLC

\* ------------------------------------------------------------------ bounds
MaxCats == 2
MaxProds == 1
MaxPathLen == 10
MaxCount == 2
\* categories of the specification of subtree moves
MoveCats == 3
\* the largest |delta| of a direct call of inc_desc_product_count_by_path
MaxDelta == 2
\* the largest count the specification of the counter alone lets a row reach
MaxCounterCount == 1
\* concurrent calls of inc_desc_product_count_by_path
AdjustCalls == 2
\* POST /orders requests
OrderReqs == 2
\* POST /orders requests placed one after the other among product updates
PurchaseReqs == 2
\* nested recomputes followed before the model stops following them
MaxDepth == 3

\* SQL NULL for an integer column / a missing JSON field
NULL == 0

\* ------------------------------------------------------------------ text
\* A text value is a sequence of one-character strings.  "_" and "%" are the
\* LIKE wildcards, "$" is the regular-expression end anchor, "/" separates
\* path segments; every other character is an ordinary literal.
SlashStr == <<"/">>

RootPrefix == <<"r", "o", "o", "t", "/">>

\* Slugs the admin sends: ordinary, a LIKE wildcard, a regular-expression
\* metacharacter.  No check of the handlers restricts the characters of a slug.
Slugs == {<<"a">>, <<"_">>, <<"$">>}

\* `root/${slug}`
rootPath(slug) == RootPrefix \o slug

\* `${parent.path}/${slug}`
childPath(parentPath, slug) == parentPath \o SlashStr \o slug

\* The reference test of the specification's Path Codec: literal prefix
\* at a "/" boundary.
IsPrefix(p, s) == Len(p) <= Len(s) /\ SubSeq(s, 1, Len(p)) = p

isDescendantOrSelf(candidatePath, ancestorPath) ==
    \/ candidatePath = ancestorPath
    \/ IsPrefix(ancestorPath \o SlashStr, candidatePath)

\* SQL  s LIKE p : "_" matches one character, "%" any run of characters.
RECURSIVE LikeFrom(_, _, _, _)
LikeFrom(s, i, p, j) ==
    IF j > Len(p) THEN i > Len(s)
    ELSE IF p[j] = "%" THEN \E k \in i..(Len(s) + 1) : LikeFrom(s, k, p, j + 1)
    ELSE IF i > Len(s) THEN FALSE
    ELSE IF p[j] = "_" THEN LikeFrom(s, i + 1, p, j + 1)
    ELSE p[j] = s[i] /\ LikeFrom(s, i + 1, p, j + 1)

Like(s, p) == LikeFrom(s, 1, p, 1)

\* (x = path OR x LIKE path || '/%'), the subtree test of every query
SqlUnder(x, path) == x = path \/ Like(x, path \o <<"/", "%">>)

\* Match of the regular expression '^' || pat at the start of s: the index of
\* the last character matched, or -1.  "$" matches only at the end of s.
RECURSIVE ReMatch(_, _, _, _)
ReMatch(s, i, pat, j) ==
    IF j > Len(pat) THEN i - 1
    ELSE IF pat[j] = "$"
         THEN IF i = Len(s) + 1 THEN ReMatch(s, i, pat, j + 1) ELSE -1
    ELSE IF i <= Len(s) /\ s[i] = pat[j] THEN ReMatch(s, i + 1, pat, j + 1)
    ELSE -1

\* regexp_replace(source, '^' || pat, repl): the first match is replaced, a
\* source without a match is returned unchanged.
regexp_replace(source, pat, repl) ==
    LET m == ReMatch(source, 1, pat, 1)
    IN  IF m = -1 THEN source ELSE repl \o SubSeq(source, m + 1, Len(source))

\* ------------------------------------------------------------------ state
VARIABLES
    categories,   \* id -> [slug, parent_id, path, desc_product_count]
    nextCatId,    \* categories.id SERIAL
    products,     \* id -> [is_active, category_id, price]
    nextProdId,   \* products.id SERIAL
    last,         \* the response to the last request, if its handler is watched
    watch,        \* the handlers whose responses `last` records
    life,         \* the stage of the product lifecycle scenario
    orders,       \* id -> [has_key, idempotency_key, total_amount]
    order_items,  \* id -> [order_id, product_id, qty, price_at_purchase]
    nextOrderId,  \* the next orders.id (gen_random_uuid(): a fresh value)
    reqs,         \* the POST /orders requests: position and locals of each
    mv,           \* the PUT /categories/:id request in flight: position and locals
    adj,          \* the concurrent inc_desc_product_count_by_path calls
    rc,           \* the recalc_desc_product_counts statement in flight
    category_cols,  \* categories, id -> [is_active, featured_only]
    product_cols,   \* products, id -> [is_featured, doc_url, has_docs]
    listing,        \* the answer of the last listing or search request
    cr,             \* the POST /categories request in flight: position and locals
    dl,             \* the DELETE /categories/:id request in flight
    call            \* the counter function in progress and the row triggers it owes

dbVars == <<categories, nextCatId, products, nextProdId>>

orderVars == <<orders, order_items, nextOrderId, reqs>>

\* what the requests of the catalogue, taken one at a time, leave alone
auxVars == <<watch, life, orders, order_items, nextOrderId, reqs, mv, adj, rc,
             category_cols, product_cols, listing, cr, dl, call>>

\* what a catalogue request that also writes the other columns leaves alone
flowVars == <<watch, life, orders, order_items, nextOrderId, reqs, mv, adj, rc,
              listing, cr, dl, call>>

vars == <<categories, nextCatId, products, nextProdId, last, watch, life,
          orders, order_items, nextOrderId, reqs, mv, adj, rc,
              category_cols, product_cols, listing, cr, dl, call>>

CatIds == DOMAIN categories
ProdIds == DOMAIN products

\* last: op (the handler), id (the row addressed), res (the response)
NoOp == [op |-> "none", id |-> NULL, res |-> "none"]

Resp(op, id, res) ==
    IF op \in watch THEN [op |-> op, id |-> id, res |-> res] ELSE NoOp

\* ------------------------------------------------------- aggregate counter
\* recalc_desc_product_counts(): the counts it writes, from tables cs and ps
recalc_desc_product_counts(cs, ps) ==
    [c \in DOMAIN cs |->
        [cs[c] EXCEPT !.desc_product_count =
            Cardinality({p \in DOMAIN ps :
                /\ ps[p].is_active
                /\ ps[p].category_id \in DOMAIN cs
                /\ SqlUnder(cs[ps[p].category_id].path, cs[c].path)})]]

Greatest(x, y) == IF x >= y THEN x ELSE y

\* an adjustment that adds delta with no floor
inc_desc_product_count_by_path_NoFloor(cs, cat_path, delta) ==
    [c \in DOMAIN cs |->
        IF SqlUnder(cat_path, cs[c].path)
        THEN [cs[c] EXCEPT !.desc_product_count = cs[c].desc_product_count + delta]
        ELSE cs[c]]

\* inc_desc_product_count_by_path(cat_path, delta)
inc_desc_product_count_by_path(cs, cat_path, delta) ==
    [c \in DOMAIN cs |->
        IF SqlUnder(cat_path, cs[c].path)
        THEN [cs[c] EXCEPT !.desc_product_count =
                 Greatest(0, cs[c].desc_product_count + delta)]
        ELSE cs[c]]

\* SELECT path INTO ... FROM categories WHERE id = cid, then
\* IF path IS NOT NULL THEN PERFORM inc_desc_product_count_by_path(path, delta)
IncForCategory(cs, cid, delta) ==
    IF cid \in DOMAIN cs
    THEN inc_desc_product_count_by_path(cs, cs[cid].path, delta)
    ELSE cs

\* trg_products_update_category_counts, TG_OP = 'INSERT'
TrgProductInsert(cs, new) ==
    IF new.is_active THEN IncForCategory(cs, new.category_id, 1) ELSE cs

\* a DELETE branch that leaves the counts alone
TrgProductDelete_NoDecrement(cs, old) == cs

\* trg_products_update_category_counts, TG_OP = 'DELETE'
TrgProductDelete(cs, old) ==
    IF old.is_active THEN IncForCategory(cs, old.category_id, -1) ELSE cs

\* an UPDATE branch that decrements whenever the new row is inactive
TrgProductUpdate_NoFlipTest(cs, old, new) ==
    LET c1 == IF new.is_active
              THEN IF old.is_active THEN cs
                   ELSE IncForCategory(cs, new.category_id, 1)
              ELSE IncForCategory(cs, old.category_id, -1)
    IN  IF new.category_id # old.category_id /\ new.is_active
        THEN IncForCategory(IncForCategory(c1, old.category_id, -1),
                            new.category_id, 1)
        ELSE c1

\* trg_products_update_category_counts, TG_OP = 'UPDATE': the active-flag
\* branch, then the category-change branch
TrgProductUpdate(cs, old, new) ==
    LET c1 == IF old.is_active # new.is_active
              THEN IF new.is_active
                   THEN IncForCategory(cs, new.category_id, 1)
                   ELSE IncForCategory(cs, old.category_id, -1)
              ELSE cs
    IN  IF new.category_id # old.category_id /\ new.is_active
        THEN IncForCategory(IncForCategory(c1, old.category_id, -1),
                            new.category_id, 1)
        ELSE c1

\* a trigger that recomputes after every update of a category row
TrgCategoryRecalcFires_Always(old, new) == TRUE

\* trg_categories_after_update_recalc for one updated row, on tables cs
\* (the tables as the statement leaves them)
TrgCategoryRecalcFires(old, new) ==
    \/ new.path # old.path
    \/ new.parent_id # old.parent_id
    \/ new.slug # old.slug

\* ------------------------------------------------------------ categories
\* The database after the migrations: every table empty.
InitDb ==
    /\ categories = <<>>
    /\ nextCatId = 1
    /\ products = <<>>
    /\ nextProdId = 1
    /\ last = NoOp

\* no scenario under way, no order placed, no request in flight
NoLife == [stage |-> 0, cat |-> NULL, prod |-> NULL]

NoMove == [pc |-> "idle"]

NoListing == [op |-> "none"]

NoCreate == [pc |-> "idle"]

NoDelete == [pc |-> "idle"]

NoCall == [pc |-> "idle"]

NoRecalc == [pc |-> "idle", cnt |-> <<>>]

InitIdle ==
    /\ life = NoLife
    /\ orders = <<>>
    /\ order_items = <<>>
    /\ nextOrderId = 1
    /\ reqs = <<>>
    /\ mv = NoMove
    /\ adj = <<>>
    /\ rc = NoRecalc
    /\ category_cols = <<>>
    /\ product_cols = <<>>
    /\ listing = NoListing
    /\ cr = NoCreate
    /\ dl = NoDelete
    /\ call = NoCall

Init ==
    /\ InitDb
    /\ InitIdle
    /\ watch = {}

\* INSERT INTO t ... : the table with row r under the new id
InsertRow(t, id, r) == [i \in DOMAIN t \cup {id} |-> IF i = id THEN r ELSE t[i]]

\* DELETE FROM t WHERE id = ...
DeleteRow(t, id) == [i \in DOMAIN t \ {id} |-> t[i]]

SlugTaken(cs, slug, except) == \E c \in DOMAIN cs : c # except /\ cs[c].slug = slug

PathsFit(cs) == \A c \in DOMAIN cs : Len(cs[c].path) <= MaxPathLen

CountsFit(cs) == \A c \in DOMAIN cs : cs[c].desc_product_count <= MaxCount

\* a POST that stores `root/${slug}` whatever the parent
CategoryCreate_RootPath(slug, parent_id) ==
    /\ IF slug = <<>>
       THEN /\ last' = Resp("CategoryCreate", NULL, "NAME_SLUG_REQUIRED")
            /\ UNCHANGED <<categories, nextCatId>>
       ELSE IF parent_id # NULL /\ parent_id \notin CatIds
       THEN /\ last' = Resp("CategoryCreate", NULL, "PARENT_NOT_FOUND")
            /\ UNCHANGED <<categories, nextCatId>>
       ELSE LET row == [slug |-> slug, parent_id |-> parent_id,
                        path |-> rootPath(slug), desc_product_count |-> 0]
            IN  IF SlugTaken(categories, slug, NULL)
                THEN /\ last' = Resp("CategoryCreate", NULL, "ERROR")
                     /\ UNCHANGED <<categories, nextCatId>>
                ELSE /\ categories' = InsertRow(categories, nextCatId, row)
                     /\ nextCatId' = nextCatId + 1
                     /\ last' = Resp("CategoryCreate", nextCatId, "ok")
    /\ UNCHANGED <<products, nextProdId>>

\* POST /admin/categories (the handler registered first answers every request)
CategoryCreate(slug, parent_id) ==
    /\ IF slug = <<>>
       THEN \* if (!name || !slug)
            /\ last' = Resp("CategoryCreate", NULL, "NAME_SLUG_REQUIRED")
            /\ UNCHANGED <<categories, nextCatId>>
       ELSE IF parent_id # NULL /\ parent_id \notin CatIds
       THEN /\ last' = Resp("CategoryCreate", NULL, "PARENT_NOT_FOUND")
            /\ UNCHANGED <<categories, nextCatId>>
       ELSE LET path == IF parent_id # NULL
                        THEN childPath(categories[parent_id].path, slug)
                        ELSE rootPath(slug)
                row == [slug |-> slug, parent_id |-> parent_id, path |-> path,
                        desc_product_count |-> 0]
            IN  IF SlugTaken(categories, slug, NULL)
                THEN \* unique_violation: the INSERT throws
                     /\ last' = Resp("CategoryCreate", NULL, "ERROR")
                     /\ UNCHANGED <<categories, nextCatId>>
                ELSE /\ categories' = InsertRow(categories, nextCatId, row)
                     /\ nextCatId' = nextCatId + 1
                     /\ last' = Resp("CategoryCreate", nextCatId, "ok")
    /\ UNCHANGED <<products, nextProdId>>

\* PUT /admin/categories/:id, statement 5: UPDATE categories SET ... WHERE id,
\* with trg_categories_recalc run by the statement
PutOwnRow(cs, ps, id, slug, parent_id, newPath) ==
    LET new == [cs[id] EXCEPT !.slug = slug, !.parent_id = parent_id,
                              !.path = newPath]
        upd == [cs EXCEPT ![id] = new]
    IN  IF TrgCategoryRecalcFires(cs[id], new)
        THEN recalc_desc_product_counts(upd, ps)
        ELSE upd

\* PUT /admin/categories/:id, statement 6: the subtree rewrite, with
\* trg_categories_recalc run for every row it rewrote
PutSubtree(cs, ps, oldPath, newPath) ==
    LET upd == [c \in DOMAIN cs |->
                   IF SqlUnder(cs[c].path, oldPath)
                   THEN [cs[c] EXCEPT !.path = regexp_replace(@, oldPath, newPath)]
                   ELSE cs[c]]
    IN  IF \E c \in DOMAIN cs : TrgCategoryRecalcFires(cs[c], upd[c])
        THEN recalc_desc_product_counts(upd, ps)
        ELSE upd

\* body.slug ?? oldCat.slug
BodySlug(body, old) == IF body.has_slug THEN body.slug ELSE old.slug

\* body.parent_id ?? oldCat.parent_id ?? null
BodyParent(body, old) == IF body.parent_id # NULL THEN body.parent_id ELSE old.parent_id

\* a PUT that writes the new slug before it looks the parent up
CategoryPut_WriteFirst(id, body) ==
    /\ IF id \notin CatIds
       THEN /\ last' = Resp("CategoryPut", id, "NOT_FOUND")
            /\ UNCHANGED categories
       ELSE LET old == categories[id]
                slug == BodySlug(body, old)
                parent_id == BodyParent(body, old)
            IN  IF slug = <<>>
                THEN /\ last' = Resp("CategoryPut", id, "NAME_SLUG_REQUIRED")
                     /\ UNCHANGED categories
                ELSE IF slug # old.slug /\ SlugTaken(categories, slug, id)
                THEN /\ last' = Resp("CategoryPut", id, "SLUG_ALREADY_EXISTS")
                     /\ UNCHANGED categories
                ELSE IF parent_id # NULL /\ parent_id \notin CatIds
                THEN /\ last' = Resp("CategoryPut", id, "PARENT_NOT_FOUND")
                     /\ categories' = [categories EXCEPT ![id].slug = slug]
                ELSE LET newPath == IF parent_id # NULL
                                    THEN childPath(categories[parent_id].path, slug)
                                    ELSE rootPath(slug)
                         own == PutOwnRow(categories, products, id, slug,
                                          parent_id, newPath)
                         fin == IF old.path # newPath
                                THEN PutSubtree(own, products, old.path, newPath)
                                ELSE own
                     IN  /\ categories' = fin
                         /\ last' = Resp("CategoryPut", id, "ok")
    /\ UNCHANGED <<nextCatId, products, nextProdId>>

\* PUT /admin/categories/:id, the whole handler
CategoryPut(id, body) ==
    /\ IF id \notin CatIds
       THEN /\ last' = Resp("CategoryPut", id, "NOT_FOUND")
            /\ UNCHANGED categories
       ELSE LET old == categories[id]
                slug == BodySlug(body, old)
                parent_id == BodyParent(body, old)
            IN  IF slug = <<>>
                THEN \* if (!name || !slug)
                     /\ last' = Resp("CategoryPut", id, "NAME_SLUG_REQUIRED")
                     /\ UNCHANGED categories
                ELSE IF slug # old.slug /\ SlugTaken(categories, slug, id)
                THEN /\ last' = Resp("CategoryPut", id, "SLUG_ALREADY_EXISTS")
                     /\ UNCHANGED categories
                ELSE IF parent_id # NULL /\ parent_id \notin CatIds
                THEN /\ last' = Resp("CategoryPut", id, "PARENT_NOT_FOUND")
                     /\ UNCHANGED categories
                ELSE LET newPath == IF parent_id # NULL
                                    THEN childPath(categories[parent_id].path, slug)
                                    ELSE rootPath(slug)
                         own == PutOwnRow(categories, products, id, slug,
                                          parent_id, newPath)
                         fin == IF old.path # newPath
                                THEN PutSubtree(own, products, old.path, newPath)
                                ELSE own
                     IN  /\ categories' = fin
                         /\ last' = Resp("CategoryPut", id, "ok")
    /\ UNCHANGED <<nextCatId, products, nextProdId>>

\* a DELETE that recounts every category after removing the row
DeleteCategory_Recalc(cs, ps, id) ==
    recalc_desc_product_counts(DeleteRow(cs, id), ps)

\* DELETE FROM categories WHERE id = ...: the row goes, parent_id REFERENCES
\* categories(id) ON DELETE SET NULL updates the rows that pointed at it, and
\* trg_categories_recalc fires for the rows so updated; a DELETE itself fires
\* no trigger
DeleteCategory(cs, ps, id) ==
    LET upd == [c \in DOMAIN cs \ {id} |->
                   IF cs[c].parent_id = id
                   THEN [cs[c] EXCEPT !.parent_id = NULL]
                   ELSE cs[c]]
    IN  IF \E c \in DOMAIN upd : TrgCategoryRecalcFires(cs[c], upd[c])
        THEN recalc_desc_product_counts(upd, ps)
        ELSE upd

\* DELETE /admin/categories/:id
CategoryDelete(id) ==
    /\ IF \E c \in CatIds : categories[c].parent_id = id
       THEN /\ last' = Resp("CategoryDelete", id, "HAS_CHILDREN")
            /\ UNCHANGED categories
       ELSE IF \E p \in ProdIds : products[p].category_id = id
       THEN /\ last' = Resp("CategoryDelete", id, "HAS_PRODUCTS")
            /\ UNCHANGED categories
       ELSE IF id \notin CatIds
       THEN /\ last' = Resp("CategoryDelete", id, "NOT_FOUND")
            /\ UNCHANGED categories
       ELSE /\ categories' = DeleteCategory(categories, products, id)
            /\ last' = Resp("CategoryDelete", id, "ok")
    /\ UNCHANGED <<nextCatId, products, nextProdId>>

\* -------------------------------------------------------------- products
\* POST /admin/products; the INSERT fires trg_products_counts
ProductCreate(is_active, category_id, price) ==
    /\ IF category_id = NULL
       THEN /\ last' = Resp("ProductCreate", NULL, "REQUIRED_FIELDS")
            /\ UNCHANGED <<categories, products, nextProdId>>
       ELSE IF category_id \notin CatIds
       THEN \* foreign_key_violation: the INSERT throws
            /\ last' = Resp("ProductCreate", NULL, "ERROR")
            /\ UNCHANGED <<categories, products, nextProdId>>
       ELSE LET row == [is_active |-> is_active, category_id |-> category_id,
                        price |-> price]
                cs == TrgProductInsert(categories, row)
            IN  /\ products' = InsertRow(products, nextProdId, row)
                /\ nextProdId' = nextProdId + 1
                /\ categories' = cs
                /\ last' = Resp("ProductCreate", nextProdId, "ok")
    /\ UNCHANGED nextCatId

\* an UPDATE whose count adjustment outlives the refusal of the row
ProductUpdate_CountsKept(op, id, new) ==
    IF new.category_id \notin CatIds
    THEN /\ last' = Resp(op, id, "ERROR")
         /\ categories' = TrgProductDelete(categories, products[id])
         /\ UNCHANGED products
    ELSE /\ products' = [products EXCEPT ![id] = new]
         /\ categories' = TrgProductUpdate(categories, products[id], new)
         /\ last' = Resp(op, id, "ok")

\* UPDATE products SET ... WHERE id = $14 of PUT and PATCH /admin/products/:id;
\* the UPDATE fires trg_products_counts
ProductUpdate(op, id, new) ==
    IF new.category_id \notin CatIds
    THEN \* foreign_key_violation: the UPDATE throws
         /\ last' = Resp(op, id, "ERROR")
         /\ UNCHANGED <<categories, products>>
    ELSE LET cs == TrgProductUpdate(categories, products[id], new)
         IN  /\ products' = [products EXCEPT ![id] = new]
             /\ categories' = cs
             /\ last' = Resp(op, id, "ok")

\* PUT /admin/products/:id
ProductPut(id, is_active, category_id, price) ==
    /\ IF id = NULL \/ category_id = NULL
       THEN /\ last' = Resp("ProductPut", id, "REQUIRED_FIELDS")
            /\ UNCHANGED <<categories, products>>
       ELSE IF id \notin ProdIds
       THEN /\ last' = Resp("ProductPut", id, "NOT_FOUND")
            /\ UNCHANGED <<categories, products>>
       ELSE ProductUpdate("ProductPut", id,
                [is_active |-> is_active, category_id |-> category_id,
                 price |-> price])
    /\ UNCHANGED <<nextCatId, nextProdId>>

\* PATCH /admin/products/:id: body.f ?? oldP.f for every field
ProductPatch(id, body) ==
    /\ IF id = NULL
       THEN /\ last' = Resp("ProductPatch", id, "ID_REQUIRED")
            /\ UNCHANGED <<categories, products>>
       ELSE IF id \notin ProdIds
       THEN /\ last' = Resp("ProductPatch", id, "NOT_FOUND")
            /\ UNCHANGED <<categories, products>>
       ELSE LET oldP == products[id]
            IN  ProductUpdate("ProductPatch", id,
                    [is_active |-> IF body.has_is_active THEN body.is_active
                                   ELSE oldP.is_active,
                     category_id |-> IF body.category_id # NULL THEN body.category_id
                                     ELSE oldP.category_id,
                     price |-> oldP.price])
    /\ UNCHANGED <<nextCatId, nextProdId>>

\* DELETE /admin/products/:id (soft delete): UPDATE products SET is_active=false
ProductSoftDelete(id) ==
    /\ IF id \notin ProdIds
       THEN /\ last' = Resp("ProductSoftDelete", id, "NOT_FOUND")
            /\ UNCHANGED <<categories, products>>
       ELSE ProductUpdate("ProductSoftDelete", id,
                [products[id] EXCEPT !.is_active = FALSE])
    /\ UNCHANGED <<nextCatId, nextProdId>>

\* DELETE FROM products WHERE id = ... (no route issues it; the trigger's
\* DELETE branch serves it)
ProductDeleteRow(id) ==
    /\ id \in ProdIds
    \* order_items.product_id REFERENCES products(id) ON DELETE RESTRICT
    /\ \A i \in DOMAIN order_items : order_items[i].product_id # id
    /\ categories' = TrgProductDelete(categories, products[id])
    /\ products' = DeleteRow(products, id)
    /\ last' = Resp("ProductDeleteRow", id, "ok")
    /\ UNCHANGED <<nextCatId, nextProdId>>

\* POST /admin/tools/recalc-counts
RecalcCounts ==
    /\ categories' = recalc_desc_product_counts(categories, products)
    /\ last' = Resp("RecalcCounts", NULL, "ok")
    /\ UNCHANGED <<nextCatId, products, nextProdId>>

\* --------------------------------------------------- request inputs
ParentInputs == 0..MaxCats

CategoryPutBodies ==
    [has_slug : {FALSE}, slug : {<<>>}, parent_id : ParentInputs]
        \cup [has_slug : {TRUE}, slug : Slugs, parent_id : ParentInputs]

ProductPatchBodies ==
    [has_is_active : {FALSE}, is_active : {FALSE}, category_id : ParentInputs]
        \cup [has_is_active : {TRUE}, is_active : BOOLEAN, category_id : ParentInputs]

ListPrice == 5

\* ------------------------------------------------ sequential requests
\* The bounds of the model: rows per table, path length, drift of a count.
Within(maxCats, maxProds) ==
    /\ nextCatId' <= maxCats + 1
    /\ nextProdId' <= maxProds + 1
    /\ PathsFit(categories')
    /\ CountsFit(categories')

Next ==
    \/ /\ \E slug \in Slugs, parent_id \in ParentInputs : CategoryCreate(slug, parent_id)
       /\ Within(MaxCats, MaxProds)
       /\ UNCHANGED auxVars
    \/ /\ \E id \in 1..MaxCats, body \in CategoryPutBodies : CategoryPut(id, body)
       /\ Within(MaxCats, MaxProds)
       /\ UNCHANGED auxVars
    \/ /\ \E id \in 1..MaxCats : CategoryDelete(id)
       /\ Within(MaxCats, MaxProds)
       /\ UNCHANGED auxVars
    \/ /\ \E a \in BOOLEAN, c \in ParentInputs : ProductCreate(a, c, ListPrice)
       /\ Within(MaxCats, MaxProds)
       /\ UNCHANGED auxVars
    \/ /\ \E id \in 1..MaxProds, a \in BOOLEAN, c \in ParentInputs :
              ProductPut(id, a, c, ListPrice)
       /\ Within(MaxCats, MaxProds)
       /\ UNCHANGED auxVars
    \/ /\ \E id \in 1..MaxProds, body \in ProductPatchBodies : ProductPatch(id, body)
       /\ Within(MaxCats, MaxProds)
       /\ UNCHANGED auxVars
    \/ /\ \E id \in 1..MaxProds : ProductSoftDelete(id)
       /\ Within(MaxCats, MaxProds)
       /\ UNCHANGED auxVars
    \/ /\ \E id \in 1..MaxProds : ProductDeleteRow(id)
       /\ Within(MaxCats, MaxProds)
       /\ UNCHANGED auxVars
    \/ /\ RecalcCounts
       /\ Within(MaxCats, MaxProds)
       /\ UNCHANGED auxVars

Spec == Init /\ [][Next]_vars

\* ------------------------------------------------------ reference notions
\* Active products whose category's path equals or is under path, by the
\* literal test of the Path Codec
ActiveUnder(cs, ps, path) ==
    {p \in DOMAIN ps :
        /\ ps[p].is_active
        /\ ps[p].category_id \in DOMAIN cs
        /\ isDescendantOrSelf(cs[ps[p].category_id].path, path)}

\* Category c is the category cid or an ancestor of it, by path
AncestorOrSelf(cs, c, cid) == isDescendantOrSelf(cs[cid].path, cs[c].path)

Count(c) == categories[c].desc_product_count

\* C1: after any sequence of product and category operations every
\* category's desc_product_count is the number of active products whose
\* category's path equals its path or starts with its path + "/".
C1_CountCorrect ==
    \A c \in CatIds :
        Count(c) = Cardinality(ActiveUnder(categories, products, categories[c].path))

\* C2: after any sequence of category operations every category's path is
\* parent.path + "/" + slug, or "root/" + slug without a parent.
C2_PathInvariant ==
    \A c \in CatIds :
        categories[c].path =
            IF categories[c].parent_id # NULL
            THEN IF categories[c].parent_id \in CatIds
                 THEN childPath(categories[categories[c].parent_id].path,
                                categories[c].slug)
                 ELSE <<>>
            ELSE rootPath(categories[c].slug)

\* C3: an update that flips is_active and changes category_id together
\* changes the counts as active presence in the current category does:
\* inactive->active while moving X->Y adds 1 along Y's ancestry and leaves
\* the rest of X's ancestry alone; active->inactive while moving removes 1
\* along X's ancestry and leaves the rest of Y's ancestry alone.
C3_FlipAndMoveStep ==
    \A p \in DOMAIN products \cap DOMAIN products' :
        LET old == products[p]
            new == products'[p]
            X == old.category_id
            Y == new.category_id
        IN  (X # Y /\ old.is_active # new.is_active /\ X \in CatIds /\ Y \in CatIds)
            => \A c \in CatIds :
                 IF new.is_active
                 THEN /\ AncestorOrSelf(categories, c, Y)
                           => categories'[c].desc_product_count = Count(c) + 1
                      /\ (AncestorOrSelf(categories, c, X)
                            /\ ~AncestorOrSelf(categories, c, Y))
                           => categories'[c].desc_product_count = Count(c)
                 ELSE /\ AncestorOrSelf(categories, c, X)
                           => categories'[c].desc_product_count = Count(c) - 1
                      /\ (AncestorOrSelf(categories, c, Y)
                            /\ ~AncestorOrSelf(categories, c, X))
                           => categories'[c].desc_product_count = Count(c)

C3_FlipAndMove == [][C3_FlipAndMoveStep]_vars

\* ------------------------------------------------------- subtree moves
\* Requests that build a tree, attach a product and move categories.
NextRestructure ==
    \/ /\ \E slug \in Slugs, parent_id \in 0..MoveCats : CategoryCreate(slug, parent_id)
       /\ Within(MoveCats, MaxProds)
       /\ UNCHANGED auxVars
    \/ /\ \E c \in 1..MoveCats : ProductCreate(TRUE, c, ListPrice)
       /\ Within(MoveCats, MaxProds)
       /\ UNCHANGED auxVars
    \/ /\ \E id \in 1..MoveCats, parent_id \in 1..MoveCats :
              CategoryPut(id, [has_slug |-> FALSE, slug |-> <<>>, parent_id |-> parent_id])
       /\ Within(MoveCats, MaxProds)
       /\ UNCHANGED auxVars

SpecRestructure == Init /\ [][NextRestructure]_vars

\* Category X moves in this step from under a parent to become a child of
\* category B, B outside X's subtree
MovesUnder(X, B) ==
    /\ X \in CatIds /\ B \in CatIds /\ X # B
    /\ categories[X].parent_id # NULL
    /\ categories[X].parent_id # B
    /\ categories'[X].parent_id = B
    /\ ~isDescendantOrSelf(categories[B].path, categories[X].path)

\* C8: after a category with k active products in its subtree is moved from
\* under ancestor A to become a child of B, every ancestor-or-self of B
\* counts those k products, every former ancestor that is no longer an
\* ancestor does not, and all counts are what a full recompute yields.
C8_MoveStep ==
    \A X \in CatIds, B \in CatIds :
        MovesUnder(X, B) =>
            LET moved == ActiveUnder(categories, products, categories[X].path)
                under(c) == ActiveUnder(categories', products', categories'[c].path)
            IN  /\ \A b \in CatIds :
                       AncestorOrSelf(categories', b, B)
                         => /\ moved \subseteq under(b)
                            /\ categories'[b].desc_product_count = Cardinality(under(b))
                /\ \A a \in CatIds :
                       (/\ a # X
                        /\ AncestorOrSelf(categories, a, X)
                        /\ ~AncestorOrSelf(categories', a, B))
                         => /\ moved \cap under(a) = {}
                            /\ categories'[a].desc_product_count = Cardinality(under(a))
                /\ categories' = recalc_desc_product_counts(categories', products')

C8_MoveKeepsCounts == [][C8_MoveStep]_vars

\* --------------------------------------------------- product lifecycle
\* A tree is built, then one product is created active, deactivated,
\* reactivated and its row deleted; life records the stage reached.
lifeRest == <<watch, orders, order_items, nextOrderId, reqs, mv, adj, rc,
              category_cols, product_cols, listing, cr, dl, call>>

Stage(n, cat, prod) == life' = [stage |-> n, cat |-> cat, prod |-> prod]

NextLifecycle ==
    \/ /\ life.stage = 0
       /\ \E slug \in Slugs, parent_id \in ParentInputs : CategoryCreate(slug, parent_id)
       /\ Within(MaxCats, MaxProds)
       /\ UNCHANGED auxVars
    \/ /\ life.stage = 0
       /\ \E id \in 1..MaxCats, body \in CategoryPutBodies : CategoryPut(id, body)
       /\ Within(MaxCats, MaxProds)
       /\ UNCHANGED auxVars
    \/ /\ life.stage = 0
       /\ \E c \in CatIds :
              /\ ProductCreate(TRUE, c, ListPrice)
              /\ Stage(1, c, nextProdId)
       /\ Within(MaxCats, MaxProds)
       /\ UNCHANGED lifeRest
    \/ /\ life.stage = 1
       /\ ProductSoftDelete(life.prod)
       /\ Stage(2, life.cat, life.prod)
       /\ UNCHANGED lifeRest
    \/ /\ life.stage = 1
       /\ ProductPatch(life.prod, [has_is_active |-> TRUE, is_active |-> FALSE,
                                   category_id |-> NULL])
       /\ Stage(2, life.cat, life.prod)
       /\ UNCHANGED lifeRest
    \/ /\ life.stage = 1
       /\ ProductPut(life.prod, FALSE, life.cat, ListPrice)
       /\ Stage(2, life.cat, life.prod)
       /\ UNCHANGED lifeRest
    \/ /\ life.stage = 2
       /\ ProductPatch(life.prod, [has_is_active |-> TRUE, is_active |-> TRUE,
                                   category_id |-> NULL])
       /\ Stage(3, life.cat, life.prod)
       /\ UNCHANGED lifeRest
    \/ /\ life.stage = 2
       /\ ProductPut(life.prod, TRUE, life.cat, ListPrice)
       /\ Stage(3, life.cat, life.prod)
       /\ UNCHANGED lifeRest
    \/ /\ life.stage = 3
       /\ ProductDeleteRow(life.prod)
       /\ Stage(4, life.cat, life.prod)
       /\ UNCHANGED lifeRest

SpecLifecycle == Init /\ [][NextLifecycle]_vars

\* the count the scenario expects after each stage
LifeCount(stage) == IF stage \in {1, 3} THEN 1 ELSE 0

\* C9: for a category with no other products, create active P, deactivate
\* P, reactivate P, delete P's row drive the desc_product_count of the
\* category and of each of its ancestors through 1, 0, 1, 0, from 0.
C9_Lifecycle ==
    /\ life.stage = 0 => \A c \in CatIds : Count(c) = 0
    /\ life.stage > 0 =>
          \A c \in CatIds :
              AncestorOrSelf(categories, c, life.cat) => Count(c) = LifeCount(life.stage)

\* the row is deleted at the end of the scenario, under a category that
\* has an ancestor
C9_RowDeleted ==
    /\ life.stage = 4
    /\ life.prod \notin ProdIds
    /\ \E c \in CatIds : c # life.cat /\ AncestorOrSelf(categories, c, life.cat)

\* ------------------------------------------------------ counter alone
\* SELECT inc_desc_product_count_by_path(cat_path, delta), called directly;
\* last keeps the call if the floor at 0 cut the adjustment of some row short
IncCall(cat_path, delta) ==
    /\ categories' = inc_desc_product_count_by_path(categories, cat_path, delta)
    /\ last' = IF \E c \in CatIds : /\ SqlUnder(cat_path, categories[c].path)
                                     /\ Count(c) + delta < 0
               THEN Resp("IncCall", NULL, "floored")
               ELSE NoOp
    /\ UNCHANGED <<nextCatId, products, nextProdId>>

\* the deltas of the triggers and the widest ones
Deltas == {0 - MaxDelta, -1, 1, MaxDelta}

InitCounter ==
    /\ InitDb
    /\ InitIdle
    /\ watch = {"IncCall"}

CounterFits(cs) == \A c \in DOMAIN cs : cs[c].desc_product_count <= MaxCounterCount

NextCounter ==
    \/ /\ \E slug \in Slugs, parent_id \in ParentInputs : CategoryCreate(slug, parent_id)
       /\ Within(MaxCats, MaxProds)
       /\ CounterFits(categories')
       /\ UNCHANGED auxVars
    \/ /\ \E a \in BOOLEAN, c \in CatIds : ProductCreate(a, c, ListPrice)
       /\ Within(MaxCats, MaxProds)
       /\ CounterFits(categories')
       /\ UNCHANGED auxVars
    \/ /\ \E id \in ProdIds, a \in BOOLEAN, c \in CatIds :
              ProductPut(id, a, c, ListPrice)
       /\ Within(MaxCats, MaxProds)
       /\ CounterFits(categories')
       /\ UNCHANGED auxVars
    \/ /\ \E id \in ProdIds : ProductSoftDelete(id)
       /\ Within(MaxCats, MaxProds)
       /\ CounterFits(categories')
       /\ UNCHANGED auxVars
    \/ /\ \E id \in ProdIds : ProductDeleteRow(id)
       /\ Within(MaxCats, MaxProds)
       /\ CounterFits(categories')
       /\ UNCHANGED auxVars
    \/ /\ \E c \in CatIds, delta \in Deltas : IncCall(categories[c].path, delta)
       /\ Within(MaxCats, MaxProds)
       /\ CounterFits(categories')
       /\ UNCHANGED auxVars
    \/ /\ RecalcCounts
       /\ Within(MaxCats, MaxProds)
       /\ CounterFits(categories')
       /\ UNCHANGED auxVars

SpecCounter == InitCounter /\ [][NextCounter]_vars

\* C10: no sequence of product events, direct adjustments along an ancestry
\* (any delta, any order) and full recomputes makes a desc_product_count
\* negative.
C10_NonNegative == \A c \in CatIds : Count(c) >= 0

\* an adjustment below zero was asked for and the count stands at 0
C10_Floored ==
    /\ last.op = "IncCall"
    /\ last.res = "floored"
    /\ \E c \in CatIds : Count(c) = 0

\* ---------------------------------------------------------------- orders
\* A JS number n >= 0 too wide for the model's integers:
\* n = billions * 10^9 + units
Billion == 1000000000

Num(b, u) == [billions |-> b, units |-> u]

NumAdd(x, y) ==
    LET u == x.units + y.units
    IN  Num(x.billions + y.billions + (u \div Billion), u % Billion)

\* p.price * qty, for a price of at most 2
NumTimes(price, n) ==
    LET u == price * n.units
    IN  Num(price * n.billions + (u \div Billion), u % Billion)

\* qty <= 0, for a qty that is no negative number
NotPositive(n) == n.billions = 0 /\ n.units = 0

\* the value fits a column of type INTEGER (at most 2147483647)
FitsInteger(n) ==
    \/ n.billions < 2
    \/ n.billions = 2 /\ n.units <= 147483647

\* if (idempotency_key): null, undefined and "" are falsy
Truthy(body) == body.has_key /\ body.key # <<>>

\* SELECT id FROM orders WHERE idempotency_key = $1
OrdersWithKey(os, key) ==
    {o \in DOMAIN os : os[o].has_key /\ os[o].idempotency_key = key}

\* an index that lets every key in
UniqueViolation_Off(os, body) == FALSE

\* idempotency_key TEXT UNIQUE: a second row with the same non-null key
UniqueViolation(os, body) ==
    body.has_key /\ OrdersWithKey(os, body.key) # {}

\* a request not yet received
NewReq ==
    [pc |-> "new", body |-> [has_key |-> FALSE, key |-> <<>>, items |-> <<>>],
     map |-> <<>>, total |-> Num(0, 0), orderId |-> NULL,
     res |-> "none", order_id |-> NULL, prior |-> NULL]

\* the order a completed request with the key of body has created
CreatedWithKey(body) ==
    {reqs[r].orderId : r \in {x \in DOMAIN reqs :
        /\ reqs[x].pc = "done"
        /\ reqs[x].res = "created"
        /\ reqs[x].body.has_key
        /\ reqs[x].body.key = body.key}}

\* return res.status(...).json(...): the handler's locals are gone
Answer(r, res, order_id) ==
    reqs' = [reqs EXCEPT ![r].pc = "done", ![r].res = res, ![r].order_id = order_id,
                         ![r].map = <<>>, ![r].total = Num(0, 0)]

\* the request arrives: the checks before the first statement
OrderBegin(r, body) ==
    /\ reqs[r].pc = "new"
    /\ \A x \in DOMAIN reqs : x < r => reqs[x].pc # "new"
    /\ LET prior == IF body.has_key /\ CreatedWithKey(body) # {}
                    THEN CHOOSE o \in CreatedWithKey(body) : TRUE
                    ELSE NULL
           seen == [reqs[r] EXCEPT !.body = body, !.prior = prior]
       IN  reqs' = [reqs EXCEPT ![r] =
               IF body.items = <<>>
               THEN [seen EXCEPT !.pc = "done", !.res = "ITEMS_REQUIRED"]
               ELSE IF Truthy(body)
               THEN [seen EXCEPT !.pc = "lookup"]
               ELSE [seen EXCEPT !.pc = "load"]]
    /\ UNCHANGED <<orders, order_items, nextOrderId>>

\* SELECT id FROM orders WHERE idempotency_key = $1
OrderLookup(r) ==
    /\ reqs[r].pc = "lookup"
    /\ LET ex == OrdersWithKey(orders, reqs[r].body.key)
       IN  IF ex # {}
           THEN Answer(r, "duplicate", CHOOSE o \in ex : TRUE)
           ELSE reqs' = [reqs EXCEPT ![r].pc = "load"]
    /\ UNCHANGED <<orders, order_items, nextOrderId>>

\* first item the loop rejects: 0 if none
RECURSIVE FirstBad(_, _, _)
FirstBad(items, map, i) ==
    IF i > Len(items) THEN 0
    ELSE IF items[i].product_id \notin DOMAIN map
            \/ ~map[items[i].product_id].is_active
            \/ NotPositive(items[i].qty)
         THEN i
         ELSE FirstBad(items, map, i + 1)

\* total += p.price * qty
RECURSIVE Total(_, _, _)
Total(items, map, i) ==
    IF i > Len(items) THEN Num(0, 0)
    ELSE NumAdd(NumTimes(map[items[i].product_id].price, items[i].qty),
                Total(items, map, i + 1))

\* a handler that writes the orders row before it looks at the items
OrderLoad_HeaderFirst(r) ==
    /\ reqs[r].pc = "load"
    /\ LET items == reqs[r].body.items
           ids == {items[i].product_id : i \in DOMAIN items}
           map == [p \in ids \cap ProdIds |-> products[p]]
           bad == FirstBad(items, map, 1)
       IN  /\ orders' = InsertRow(orders, nextOrderId,
                            [has_key |-> FALSE, idempotency_key |-> <<>>,
                             total_amount |-> Num(0, 0)])
           /\ nextOrderId' = nextOrderId + 1
           /\ IF bad # 0
              THEN IF items[bad].product_id \notin DOMAIN map
                      \/ ~map[items[bad].product_id].is_active
                   THEN Answer(r, "INVALID_PRODUCT", NULL)
                   ELSE Answer(r, "INVALID_QTY", NULL)
              ELSE reqs' = [reqs EXCEPT ![r].pc = "items", ![r].map = map,
                                        ![r].orderId = nextOrderId]
    /\ UNCHANGED order_items

\* SELECT id, price, is_active FROM products WHERE id = ANY($1), then the
\* loop over the items
OrderLoad(r) ==
    /\ reqs[r].pc = "load"
    /\ LET items == reqs[r].body.items
           ids == {items[i].product_id : i \in DOMAIN items}
           map == [p \in ids \cap ProdIds |-> products[p]]
           bad == FirstBad(items, map, 1)
       IN  IF bad # 0
           THEN IF items[bad].product_id \notin DOMAIN map
                   \/ ~map[items[bad].product_id].is_active
                THEN Answer(r, "INVALID_PRODUCT", NULL)
                ELSE Answer(r, "INVALID_QTY", NULL)
           ELSE reqs' = [reqs EXCEPT ![r].pc = "insert", ![r].map = map,
                                     ![r].total = Total(items, map, 1)]
    /\ UNCHANGED <<orders, order_items, nextOrderId>>

\* INSERT INTO orders(..., total_amount, idempotency_key) RETURNING id
OrderInsert(r) ==
    /\ reqs[r].pc = "insert"
    /\ IF UniqueViolation(orders, reqs[r].body) \/ ~FitsInteger(reqs[r].total)
       THEN \* the statement throws
            /\ Answer(r, "ERROR", NULL)
            /\ UNCHANGED <<orders, nextOrderId>>
       ELSE /\ orders' = InsertRow(orders, nextOrderId,
                             [has_key |-> reqs[r].body.has_key,
                              idempotency_key |-> reqs[r].body.key,
                              total_amount |-> reqs[r].total])
            /\ nextOrderId' = nextOrderId + 1
            /\ reqs' = [reqs EXCEPT ![r].pc = "items", ![r].orderId = nextOrderId]
    /\ UNCHANGED order_items

\* rows that take the price the client sent
ItemRows_ClientPrice(r) ==
    [i \in DOMAIN reqs[r].body.items |->
        [order_id |-> reqs[r].orderId,
         product_id |-> reqs[r].body.items[i].product_id,
         qty |-> reqs[r].body.items[i].qty,
         price_at_purchase |-> reqs[r].body.items[i].price]]

\* the rows of INSERT INTO order_items(order_id, product_id, qty, price_at_purchase)
ItemRows(r) ==
    [i \in DOMAIN reqs[r].body.items |->
        [order_id |-> reqs[r].orderId,
         product_id |-> reqs[r].body.items[i].product_id,
         qty |-> reqs[r].body.items[i].qty,
         price_at_purchase |-> reqs[r].map[reqs[r].body.items[i].product_id].price]]

\* qty INTEGER CHECK (qty > 0), product_id REFERENCES products(id)
ItemRowFails(row) ==
    \/ ~FitsInteger(row.qty)
    \/ NotPositive(row.qty)
    \/ row.product_id \notin ProdIds

\* an insert that also rewrites the stored prices to the current ones
OrderInsertItems_Reprice(r) ==
    /\ reqs[r].pc = "items"
    /\ order_items' =
           [i \in DOMAIN order_items |->
               [order_items[i] EXCEPT !.price_at_purchase =
                   IF order_items[i].product_id \in ProdIds
                   THEN products[order_items[i].product_id].price
                   ELSE @]] \o ItemRows(r)
    /\ Answer(r, "created", reqs[r].orderId)
    /\ UNCHANGED <<orders, nextOrderId>>

\* INSERT INTO order_items ... VALUES (...), (...): one statement, its own
\* commit
OrderInsertItems(r) ==
    /\ reqs[r].pc = "items"
    /\ LET rows == ItemRows(r)
       IN  IF \E i \in DOMAIN rows : ItemRowFails(rows[i])
           THEN \* the statement throws; the orders row is already committed
                /\ Answer(r, "ERROR", NULL)
                /\ UNCHANGED order_items
           ELSE /\ order_items' = order_items \o rows
                /\ Answer(r, "created", reqs[r].orderId)
    /\ UNCHANGED <<orders, nextOrderId>>
\* ------------------------------------------- concurrent order requests
OrderPrices == {0, 2}

Qtys == {Num(0, 0), Num(0, 1), Num(3, 0)}

\* a price the client puts in an item; no product is ever given this price
ClientPrice == 1

\* the one product of the catalogue the orders are placed on
ItemLists ==
    {<<>>} \cup {<<[product_id |-> p, qty |-> n, price |-> ClientPrice]>> :
                     p \in {1}, n \in Qtys}

OrderBodies ==
    [has_key : {FALSE}, key : {<<>>}, items : ItemLists]
        \cup [has_key : {TRUE}, key : {<<>>, <<"k">>}, items : ItemLists]

orderRest == <<categories, nextCatId, products, nextProdId, last, watch, life, mv,
              adj, rc,
              category_cols, product_cols, listing, cr, dl, call>>

InitOrders ==
    /\ InitDb
    /\ watch = {}
    /\ life = NoLife
    /\ orders = <<>>
    /\ order_items = <<>>
    /\ nextOrderId = 1
    /\ reqs = [r \in 1..OrderReqs |-> NewReq]
    /\ mv = NoMove
    /\ adj = <<>>
    /\ rc = NoRecalc
    /\ category_cols = <<>>
    /\ product_cols = <<>>
    /\ listing = NoListing
    /\ cr = NoCreate
    /\ dl = NoDelete
    /\ call = NoCall

NextOrders ==
    \/ /\ CategoryCreate(<<"a">>, NULL)
       /\ Within(1, 1)
       /\ UNCHANGED auxVars
    \/ /\ \E price \in OrderPrices : ProductCreate(TRUE, 1, price)
       /\ Within(1, 1)
       /\ UNCHANGED auxVars
    \/ /\ \E r \in 1..OrderReqs, body \in OrderBodies : OrderBegin(r, body)
       /\ UNCHANGED orderRest
    \/ /\ \E r \in 1..OrderReqs : OrderLookup(r)
       /\ UNCHANGED orderRest
    \/ /\ \E r \in 1..OrderReqs : OrderLoad(r)
       /\ UNCHANGED orderRest
    \/ /\ \E r \in 1..OrderReqs : OrderInsert(r)
       /\ UNCHANGED orderRest
    \/ /\ \E r \in 1..OrderReqs : OrderInsertItems(r)
       /\ UNCHANGED orderRest

SpecOrders == InitOrders /\ [][NextOrders]_vars

\* C4: once a PlaceOrder carrying key K has completed and created order O,
\* any later PlaceOrder carrying K (here: with a non-empty item list, whatever
\* else its body holds) returns O with status duplicate and creates no
\* order row and no order item.
C4_Idempotent ==
    \A r \in DOMAIN reqs :
        (/\ reqs[r].pc = "done"
         /\ reqs[r].body.has_key
         /\ reqs[r].body.items # <<>>
         /\ reqs[r].prior # NULL)
          => /\ reqs[r].res = "duplicate"
             /\ reqs[r].order_id = reqs[r].prior
             /\ reqs[r].orderId = NULL

\* C5: under any interleaving of concurrent PlaceOrder requests carrying
\* the same idempotency key, at most one orders row has that key.
C5_AtMostOneRow ==
    \A o1 \in DOMAIN orders, o2 \in DOMAIN orders :
        (/\ orders[o1].has_key
         /\ orders[o2].has_key
         /\ orders[o1].idempotency_key = orders[o2].idempotency_key)
          => o1 = o2

\* two requests with the same key both got past the lookup; one created the
\* order, the INSERT of the other was turned down
C5_RaceLost ==
    \E r1 \in DOMAIN reqs, r2 \in DOMAIN reqs :
        /\ r1 # r2
        /\ Truthy(reqs[r1].body)
        /\ reqs[r2].body.has_key
        /\ reqs[r1].body.key = reqs[r2].body.key
        /\ reqs[r1].orderId # NULL
        /\ reqs[r2].pc = "done"
        /\ reqs[r2].res = "ERROR"
        /\ reqs[r2].orderId = NULL
        /\ Len(reqs[r2].body.items) = 1
        /\ reqs[r2].body.items[1].qty = Num(0, 1)

\* C6: the order header and its line items are persisted all-or-nothing:
\* no orders row is left without line items, other than by a request that
\* is still about to write them.
C6_AllOrNothing ==
    \A o \in DOMAIN orders :
        \/ \E i \in DOMAIN order_items : order_items[i].order_id = o
        \/ \E r \in DOMAIN reqs : reqs[r].pc = "items" /\ reqs[r].orderId = o

\* ------------------------------------------ a move among other requests
\* PUT /admin/categories/:id one statement at a time; mv holds the handler's
\* locals between its statements.
moveRest == <<nextCatId, products, nextProdId, last, watch, life,
              orders, order_items, nextOrderId, reqs, adj, rc,
              category_cols, product_cols, listing, cr, dl, call>>

\* where the handler goes once slug and parent_id are known
AfterSlug(m) ==
    IF m.parent_id # NULL
    THEN [m EXCEPT !.pc = "parent"]
    ELSE [m EXCEPT !.pc = "own", !.newPath = rootPath(m.slug)]

\* statement 1: SELECT ... FROM categories WHERE id = $1, then the defaults
MoveSelectOld(id, body) ==
    /\ mv.pc = "idle"
    /\ IF id \notin CatIds
       THEN mv' = NoMove
       ELSE LET oldCat == categories[id]
                m == [pc |-> "slug", id |-> id, oldCat |-> oldCat,
                      slug |-> BodySlug(body, oldCat),
                      parent_id |-> BodyParent(body, oldCat),
                      newPath |-> <<>>]
            IN  mv' = IF m.slug = <<>> THEN NoMove
                      ELSE IF m.slug # oldCat.slug THEN m ELSE AfterSlug(m)
    /\ UNCHANGED categories

\* statement 3: SELECT id FROM categories WHERE slug = $1 AND id <> $2
MoveCheckSlug ==
    /\ mv.pc = "slug"
    /\ mv' = IF SlugTaken(categories, mv.slug, mv.id) THEN NoMove ELSE AfterSlug(mv)
    /\ UNCHANGED categories

\* statement 4: SELECT path FROM categories WHERE id = $1 (the parent)
MoveSelectParent ==
    /\ mv.pc = "parent"
    /\ mv' = IF mv.parent_id \notin CatIds
             THEN NoMove
             ELSE [mv EXCEPT !.pc = "own",
                             !.newPath = childPath(categories[mv.parent_id].path, mv.slug)]
    /\ UNCHANGED categories

\* statement 5: UPDATE categories SET ... WHERE id = $9, committed on its own
MoveUpdateOwn ==
    /\ mv.pc = "own"
    /\ IF mv.id \in CatIds /\ SlugTaken(categories, mv.slug, mv.id)
       THEN \* unique_violation: the UPDATE throws
            /\ mv' = NoMove
            /\ UNCHANGED categories
       ELSE /\ categories' = IF mv.id \in CatIds
                             THEN PutOwnRow(categories, products, mv.id, mv.slug,
                                            mv.parent_id, mv.newPath)
                             ELSE categories
            /\ mv' = IF mv.oldCat.path # mv.newPath
                     THEN [mv EXCEPT !.pc = "subtree"]
                     ELSE NoMove

\* statement 6: UPDATE categories SET path = regexp_replace(...) WHERE path
\* = $1 OR path LIKE $1 || '/%'
MoveUpdateSubtree ==
    /\ mv.pc = "subtree"
    /\ categories' = PutSubtree(categories, products, mv.oldCat.path, mv.newPath)
    /\ mv' = NoMove

NextMove ==
    \/ /\ \E slug \in Slugs, parent_id \in ParentInputs : CategoryCreate(slug, parent_id)
       /\ Within(MaxCats, MaxProds)
       /\ UNCHANGED auxVars
    \/ /\ \E c \in CatIds : ProductCreate(TRUE, c, ListPrice)
       /\ Within(MaxCats, MaxProds)
       /\ UNCHANGED auxVars
    \/ /\ \E id \in 1..MaxCats, body \in CategoryPutBodies : MoveSelectOld(id, body)
       /\ UNCHANGED moveRest
    \/ /\ MoveCheckSlug
       /\ UNCHANGED moveRest
    \/ /\ MoveSelectParent
       /\ UNCHANGED moveRest
    \/ /\ MoveUpdateOwn
       /\ PathsFit(categories')
       /\ UNCHANGED moveRest
    \/ /\ MoveUpdateSubtree
       /\ PathsFit(categories')
       /\ UNCHANGED moveRest

SpecMove == Init /\ [][NextMove]_vars

\* C7: a path-changing Rename/Move applies the own-row update and the
\* rewrite of the descendants' paths as one atomic step: in no state that
\* another request can read has the category its new path while one of its
\* descendants still has a path under the old prefix.
C7_MoveAtomic ==
    ~ /\ mv.pc = "subtree"
      /\ mv.id \in CatIds
      /\ categories[mv.id].path = mv.newPath
      /\ \E d \in CatIds \ {mv.id} :
             isDescendantOrSelf(categories[d].path, mv.oldCat.path)

\* the responses of a PlaceOrder that fails validation
ValidationFailures == {"ITEMS_REQUIRED", "INVALID_PRODUCT", "INVALID_QTY"}

\* C11: a PlaceOrder that fails with ItemsRequired, InvalidProduct or
\* InvalidQty persists no order row and no order item: the step that answers
\* so leaves both tables as they were, and the request wrote nothing before.
C11_FailStep ==
    \A r \in DOMAIN reqs :
        (reqs[r].res = "none" /\ reqs'[r].res \in ValidationFailures)
          => /\ orders' = orders
             /\ order_items' = order_items
             /\ reqs[r].orderId = NULL

C11_FailPersistsNothing == [][C11_FailStep]_vars

\* one request was turned down for its product and another for its quantity
C11_Rejected ==
    \E r1 \in DOMAIN reqs, r2 \in DOMAIN reqs :
        /\ reqs[r1].res = "INVALID_PRODUCT"
        /\ reqs[r2].res = "INVALID_QTY"

\* ------------------------------------- orders among product updates
\* Orders are placed one request at a time while the product they name is
\* repriced, deactivated and moved to another category.
Item(qty) == [product_id |-> 1, qty |-> qty, price |-> ClientPrice]

\* one line, and two lines of the same product
PurchaseBodies ==
    [has_key : {FALSE}, key : {<<>>},
     items : {<<Item(Num(0, 1))>>, <<Item(Num(0, 1)), Item(Num(0, 2))>>}]
        \cup [has_key : {TRUE}, key : {<<"k">>}, items : {<<Item(Num(0, 1))>>}]

InitPurchase ==
    /\ InitDb
    /\ watch = {}
    /\ life = NoLife
    /\ orders = <<>>
    /\ order_items = <<>>
    /\ nextOrderId = 1
    /\ reqs = [r \in 1..PurchaseReqs |-> NewReq]
    /\ mv = NoMove
    /\ adj = <<>>
    /\ rc = NoRecalc
    /\ category_cols = <<>>
    /\ product_cols = <<>>
    /\ listing = NoListing
    /\ cr = NoCreate
    /\ dl = NoDelete
    /\ call = NoCall

NextPurchase ==
    \/ /\ \E slug \in {<<"a">>, <<"_">>} : CategoryCreate(slug, nextCatId - 1)
       /\ Within(2, 1)
       /\ UNCHANGED auxVars
    \/ /\ \E c \in CatIds, price \in OrderPrices : ProductCreate(TRUE, c, price)
       /\ Within(2, 1)
       /\ UNCHANGED auxVars
    \/ /\ \E a \in BOOLEAN, c \in CatIds, price \in OrderPrices : ProductPut(1, a, c, price)
       /\ Within(2, 1)
       /\ UNCHANGED auxVars
    \/ /\ \A x \in DOMAIN reqs : reqs[x].pc \in {"new", "done"}
       /\ \E r \in 1..PurchaseReqs, body \in PurchaseBodies : OrderBegin(r, body)
       /\ UNCHANGED orderRest
    \/ /\ \E r \in 1..PurchaseReqs : OrderLookup(r)
       /\ UNCHANGED orderRest
    \/ /\ \E r \in 1..PurchaseReqs : OrderLoad(r)
       /\ UNCHANGED orderRest
    \/ /\ \E r \in 1..PurchaseReqs : OrderInsert(r)
       /\ UNCHANGED orderRest
    \/ /\ \E r \in 1..PurchaseReqs : OrderInsertItems(r)
       /\ UNCHANGED orderRest

SpecPurchase == InitPurchase /\ [][NextPurchase]_vars

\* Sum of qty * price_at_purchase over the order_items rows of order o
RECURSIVE ItemsTotal(_, _, _)
ItemsTotal(rows, o, i) ==
    IF i > Len(rows) THEN Num(0, 0)
    ELSE IF rows[i].order_id = o
         THEN NumAdd(NumTimes(rows[i].price_at_purchase, rows[i].qty),
                     ItemsTotal(rows, o, i + 1))
         ELSE ItemsTotal(rows, o, i + 1)

\* C12: once an order has been created, the price_at_purchase of each of
\* its items and its total_amount never change, whatever product price
\* updates, deactivations, category changes or later orders follow.
C12_FrozenStep ==
    /\ \A o \in DOMAIN orders :
          /\ o \in DOMAIN orders'
          /\ orders'[o].total_amount = orders[o].total_amount
    /\ \A i \in DOMAIN order_items :
          /\ i \in DOMAIN order_items'
          /\ order_items'[i] = order_items[i]

C12_Frozen == [][C12_FrozenStep]_vars

\* an order keeps the price it was placed at after the product was
\* repriced, deactivated and moved, and a later order was placed
C12_Repriced ==
    \E i \in DOMAIN order_items, j \in DOMAIN order_items :
        /\ order_items[i].order_id # order_items[j].order_id
        /\ order_items[i].price_at_purchase # order_items[j].price_at_purchase
        /\ order_items[i].product_id \in ProdIds
        /\ ~products[order_items[i].product_id].is_active
        /\ products[order_items[i].product_id].category_id = 2

\* C13: for every successfully placed order, total_amount is the sum over
\* its line items of qty * price_at_purchase, and each price_at_purchase is
\* the product's stored price read during placement, never a value taken
\* from the request.
C13_PlacementStep ==
    \A r \in DOMAIN reqs :
        /\ (reqs[r].pc = "load" /\ reqs'[r].pc = "insert")
              => \A p \in DOMAIN reqs'[r].map :
                     /\ p \in ProdIds
                     /\ reqs'[r].map[p].price = products[p].price
        /\ (reqs[r].pc = "items" /\ reqs'[r].res = "created")
              => LET o == reqs[r].orderId
                     items == reqs[r].body.items
                 IN  /\ Len(order_items') = Len(order_items) + Len(items)
                     /\ \A k \in DOMAIN items :
                            LET row == order_items'[Len(order_items) + k]
                            IN  /\ row.order_id = o
                                /\ row.product_id = items[k].product_id
                                /\ row.qty = items[k].qty
                                /\ row.price_at_purchase =
                                       reqs[r].map[items[k].product_id].price
                     /\ orders'[o].total_amount = ItemsTotal(order_items', o, 1)

C13_TotalIsSum == [][C13_PlacementStep]_vars

\* an order of two lines, 1 and 2 units at price 2, was placed: total 6
C13_TwoLines ==
    \E r \in DOMAIN reqs :
        /\ reqs[r].res = "created"
        /\ Len(reqs[r].body.items) = 2
        /\ orders[reqs[r].orderId].total_amount = Num(0, 6)
        /\ \A i \in DOMAIN order_items :
               order_items[i].price_at_purchase # ClientPrice

\* ------------------------------------------------------ product writes
\* The product requests alone, on a tree built by POST /categories.
NextWrites ==
    \/ /\ \E slug \in Slugs, parent_id \in ParentInputs : CategoryCreate(slug, parent_id)
       /\ Within(MaxCats, MaxProds)
       /\ UNCHANGED auxVars
    \/ /\ \E a \in BOOLEAN, c \in ParentInputs : ProductCreate(a, c, ListPrice)
       /\ Within(MaxCats, MaxProds)
       /\ UNCHANGED auxVars
    \/ /\ \E id \in ProdIds, a \in BOOLEAN, c \in 1..MaxCats :
              ProductPut(id, a, c, ListPrice)
       /\ Within(MaxCats, MaxProds)
       /\ UNCHANGED auxVars
    \/ /\ \E id \in ProdIds, body \in ProductPatchBodies : ProductPatch(id, body)
       /\ Within(MaxCats, MaxProds)
       /\ UNCHANGED auxVars
    \/ /\ \E id \in ProdIds : ProductSoftDelete(id)
       /\ Within(MaxCats, MaxProds)
       /\ UNCHANGED auxVars
    \/ /\ \E id \in ProdIds : ProductDeleteRow(id)
       /\ Within(MaxCats, MaxProds)
       /\ UNCHANGED auxVars

SpecWrites == Init /\ [][NextWrites]_vars

\* the counts the trigger leaves for the product write of this step
WriteAdjustment ==
    LET ins == DOMAIN products' \ DOMAIN products
        del == DOMAIN products \ DOMAIN products'
        upd == {p \in DOMAIN products \cap DOMAIN products' : products'[p] # products[p]}
    IN  IF ins # {}
        THEN TrgProductInsert(categories, products'[CHOOSE p \in ins : TRUE])
        ELSE IF del # {}
        THEN TrgProductDelete(categories, products[CHOOSE p \in del : TRUE])
        ELSE IF upd # {}
        THEN LET p == CHOOSE x \in upd : TRUE
             IN  TrgProductUpdate(categories, products[p], products'[p])
        ELSE categories

\* C14: a product insert, update or delete and the count adjustments it
\* causes take effect as one step: a step that changes a product row
\* leaves exactly the trigger's adjustment in the counts, and a step that
\* changes no product row, a refused write included, changes no count.
C14_WriteStep ==
    \A c \in CatIds :
        /\ c \in DOMAIN categories'
        /\ categories'[c].desc_product_count = WriteAdjustment[c].desc_product_count

adjRest == <<nextCatId, products, nextProdId, last, watch, life,
             orders, order_items, nextOrderId, reqs, mv, rc,
              category_cols, product_cols, listing, cr, dl, call>>

NewCall == [pc |-> "new", delta |-> 0, rows |-> {}, todo |-> {}, undo |-> <<>>,
            snap |-> <<>>]

\* the rows a running statement of another call has updated and holds
Locked(k) ==
    UNION {DOMAIN adj[j].undo : j \in {x \in DOMAIN adj : x # k /\ adj[x].pc = "run"}}

\* the count the SET expression reads from the statement's snapshot
RowCount_Snapshot(k, c) == adj[k].snap[c]

\* the count the SET expression reads: the latest version of the locked row
RowCount(k, c) == categories[c].desc_product_count

AdjustBegin(k, c, delta) ==
    /\ adj[k].pc = "new"
    /\ \A x \in DOMAIN adj : x < k => adj[x].pc # "new"
    /\ c \in CatIds
    /\ LET rows == {x \in CatIds : SqlUnder(categories[c].path, categories[x].path)}
       IN  adj' = [adj EXCEPT ![k] =
               [pc |-> "run", delta |-> delta, rows |-> rows, todo |-> rows,
                undo |-> <<>>, snap |-> [x \in CatIds |-> Count(x)]]]
    /\ UNCHANGED categories

\* SET desc_product_count = GREATEST(0, desc_product_count + delta), one row
AdjustRow(k, c) ==
    /\ adj[k].pc = "run"
    /\ c \in adj[k].todo
    /\ c \notin Locked(k)
    /\ categories' = [categories EXCEPT ![c].desc_product_count =
                          Greatest(0, RowCount(k, c) + adj[k].delta)]
    /\ adj' = [adj EXCEPT ![k].todo = @ \ {c},
                          ![k].undo = [x \in DOMAIN @ \cup {c} |->
                                          IF x = c THEN Count(c) ELSE @[x]]]

\* the statement has updated its rows; the transaction commits
AdjustCommit(k) ==
    /\ adj[k].pc = "run"
    /\ adj[k].todo = {}
    /\ adj' = [adj EXCEPT ![k].pc = "done"]
    /\ UNCHANGED categories

\* two statements wait for rows of each other: the deadlock detector
\* aborts one, and its transaction is rolled back
AdjustDeadlock(k) ==
    /\ adj[k].pc = "run"
    /\ \E j \in DOMAIN adj :
          /\ j # k
          /\ adj[j].pc = "run"
          /\ adj[k].todo \cap DOMAIN adj[j].undo # {}
          /\ adj[j].todo \cap DOMAIN adj[k].undo # {}
    /\ categories' = [c \in CatIds |->
                          IF c \in DOMAIN adj[k].undo
                          THEN [categories[c] EXCEPT !.desc_product_count = adj[k].undo[c]]
                          ELSE categories[c]]
    /\ adj' = [adj EXCEPT ![k].pc = "aborted"]

NoCallYet == \A k \in DOMAIN adj : adj[k].pc = "new"

InitAdjust ==
    /\ InitDb
    /\ watch = {}
    /\ life = NoLife
    /\ orders = <<>>
    /\ order_items = <<>>
    /\ nextOrderId = 1
    /\ reqs = <<>>
    /\ mv = NoMove
    /\ adj = [k \in 1..AdjustCalls |-> NewCall]
    /\ rc = NoRecalc
    /\ category_cols = <<>>
    /\ product_cols = <<>>
    /\ listing = NoListing
    /\ cr = NoCreate
    /\ dl = NoDelete
    /\ call = NoCall

NextAdjust ==
    \/ /\ NoCallYet
       /\ \E slug \in Slugs, parent_id \in ParentInputs : CategoryCreate(slug, parent_id)
       /\ Within(2, 1)
       /\ UNCHANGED auxVars
    \/ /\ NoCallYet
       /\ \E c \in CatIds : ProductCreate(TRUE, c, ListPrice)
       /\ Within(2, 1)
       /\ UNCHANGED auxVars
    \/ /\ \E k \in 1..AdjustCalls, c \in CatIds, delta \in {-1, 1} : AdjustBegin(k, c, delta)
       /\ UNCHANGED adjRest
    \/ /\ \E k \in 1..AdjustCalls, c \in CatIds : AdjustRow(k, c)
       /\ CountsFit(categories')
       /\ UNCHANGED adjRest
    \/ /\ \E k \in 1..AdjustCalls : AdjustCommit(k)
       /\ UNCHANGED adjRest
    \/ /\ \E k \in 1..AdjustCalls : AdjustDeadlock(k)
       /\ UNCHANGED adjRest

SpecAdjust == InitAdjust /\ [][NextAdjust]_vars

\* the counts a row can end with when the calls of S are applied to v one
\* after the other, in any order
RECURSIVE Outcomes(_, _)
Outcomes(v, S) ==
    IF S = {} THEN {v}
    ELSE UNION {Outcomes(Greatest(0, v + adj[k].delta), S \ {k}) : k \in S}

recalcRest == <<nextCatId, products, nextProdId, last, watch, life,
                orders, order_items, nextOrderId, reqs, mv, adj,
                category_cols, product_cols, listing, cr, dl, call>>

\* WITH cat_counts AS (...): the counts, read at the statement's snapshot
RecalcSnapshot ==
    /\ rc.pc # "run"
    /\ rc' = [pc |-> "run",
              cnt |-> [c \in CatIds |->
                         recalc_desc_product_counts(categories, products)[c].desc_product_count]]
    /\ UNCHANGED categories

\* UPDATE categories c SET desc_product_count = cc.cnt ... WHERE c.id = cc.id
RecalcWrite ==
    /\ rc.pc = "run"
    /\ categories' = [c \in CatIds |->
                          IF c \in DOMAIN rc.cnt
                          THEN [categories[c] EXCEPT !.desc_product_count = rc.cnt[c]]
                          ELSE categories[c]]
    /\ rc' = [pc |-> "done", cnt |-> <<>>]

NextRecalc ==
    \/ /\ rc.pc # "run"
       /\ \E slug \in Slugs, parent_id \in ParentInputs : CategoryCreate(slug, parent_id)
       /\ Within(2, 1)
       /\ UNCHANGED auxVars
    \/ /\ \E a \in BOOLEAN, c \in CatIds : ProductCreate(a, c, ListPrice)
       /\ Within(2, 1)
       /\ UNCHANGED auxVars
    \/ /\ \E id \in ProdIds : ProductSoftDelete(id)
       /\ UNCHANGED auxVars
    \/ /\ RecalcSnapshot
       /\ UNCHANGED recalcRest
    \/ /\ RecalcWrite
       /\ UNCHANGED recalcRest

SpecRecalc == Init /\ [][NextRecalc]_vars

\* C16: once a recompute that ran beside product writes has finished, every
\* category's count is the number of active products in its subtree.
C16_RecomputeSettles ==
    rc.pc = "done" => \A c \in CatIds : Count(c) = Cardinality(ActiveUnder(categories, products, categories[c].path))

\* C17: in a Rename/Move that changes the path, a recompute fired by the
\* operation reads the paths only after the whole subtree is rewritten: in
\* the step whose own-row update fires trg_categories_recalc, the table the
\* recompute reads holds no other category still under the old path.
C17_RecomputeStep ==
    (/\ mv.pc = "own"
     /\ mv'.pc = "subtree"
     /\ mv.id \in CatIds
     /\ TrgCategoryRecalcFires(categories[mv.id], categories'[mv.id]))
      => \A d \in CatIds \ {mv.id} :
             ~isDescendantOrSelf(categories'[d].path, mv.oldCat.path)

C17_RecomputeAfterRewrite == [][C17_RecomputeStep]_vars

\* ------------------------------------------------ drift and repair
\* Trees of up to MoveCats categories whose counts are pushed off by direct
\* adjustments and rebuilt by POST /tools/recalc-counts.
InitRepair ==
    /\ InitDb
    /\ InitIdle
    /\ watch = {"RecalcCounts"}

NextRepair ==
    \/ /\ \E slug \in Slugs, parent_id \in 0..MoveCats : CategoryCreate(slug, parent_id)
       /\ Within(MoveCats, MaxProds)
       /\ UNCHANGED auxVars
    \/ /\ \E a \in BOOLEAN, c \in CatIds : ProductCreate(a, c, ListPrice)
       /\ Within(MoveCats, MaxProds)
       /\ UNCHANGED auxVars
    \/ /\ \E c \in CatIds, delta \in Deltas : IncCall(categories[c].path, delta)
       /\ CountsFit(categories')
       /\ UNCHANGED auxVars
    \/ /\ RecalcCounts
       /\ UNCHANGED auxVars

SpecRepair == InitRepair /\ [][NextRepair]_vars

\* C18: from any state, drifted counts included, FullRecompute sets every
\* category's count to the number of active products whose category path
\* equals or is under the category's path, and a second run changes nothing.
C18_RecomputeRepairs ==
    last.op = "RecalcCounts" =>
        /\ \A c \in CatIds :
              Count(c) = Cardinality(ActiveUnder(categories, products, categories[c].path))
        /\ recalc_desc_product_counts(categories, products) = categories

\* C19: AdjustAlongAncestry(p, d) sets the count to max(0, count + d) on
\* every category whose path is p or a proper ancestor of p and leaves every
\* other count unchanged: a step that only adjusts counts is such a change
\* for some category path p and delta d.
C19_AdjustStep ==
    (/\ categories' # categories
     /\ last'.op # "RecalcCounts"
     /\ UNCHANGED <<nextCatId, products>>)
      => \E p \in CatIds, d \in Deltas :
             \A x \in CatIds :
                 categories'[x] =
                     IF isDescendantOrSelf(categories[p].path, categories[x].path)
                     THEN [categories[x] EXCEPT !.desc_product_count = Greatest(0, @ + d)]
                     ELSE categories[x]

C19_AdjustFrame == [][C19_AdjustStep]_vars

\* C20: the descendant-or-self test of the SQL agrees, for every pair of
\* category paths, with the reference: candidate = ancestor, or candidate
\* starts literally with ancestor + "/".
C20_TestAgrees ==
    \A c \in CatIds, a \in CatIds :
        SqlUnder(categories[c].path, categories[a].path)
            = isDescendantOrSelf(categories[c].path, categories[a].path)

\* ------------------------------------------------ category deletion
\* Catalogues of two categories and one product, whose counts a product
\* update can leave off, and DELETE /admin/categories/:id.
InitDelete ==
    /\ InitDb
    /\ InitIdle
    /\ watch = {"CategoryDelete"}

NextDelete ==
    \/ /\ \E slug \in Slugs, parent_id \in 0..2 : CategoryCreate(slug, parent_id)
       /\ Within(2, 1)
       /\ UNCHANGED auxVars
    \/ /\ \E a \in BOOLEAN, c \in CatIds : ProductCreate(a, c, ListPrice)
       /\ Within(2, 1)
       /\ UNCHANGED auxVars
    \/ /\ \E id \in ProdIds, a \in BOOLEAN, c \in CatIds : ProductPut(id, a, c, ListPrice)
       /\ Within(2, 1)
       /\ UNCHANGED auxVars
    \/ /\ \E id \in 1..2 : CategoryDelete(id)
       /\ UNCHANGED auxVars

SpecDelete == InitDelete /\ [][NextDelete]_vars

\* C21: category Delete(id) fails with HasChildren when some category has
\* parent_id = id, otherwise with HasProducts when some product, active or
\* not, has category_id = id, and changes nothing in both failures;
\* otherwise it removes exactly that category and leaves every other
\* category's row, path and count included, as it was: no recompute runs.
C21_DeleteStep ==
    last'.op = "CategoryDelete" =>
        LET id == last'.id
        IN  IF \E c \in CatIds : categories[c].parent_id = id
            THEN last'.res = "HAS_CHILDREN" /\ UNCHANGED <<categories, products>>
            ELSE IF \E p \in ProdIds : products[p].category_id = id
            THEN last'.res = "HAS_PRODUCTS" /\ UNCHANGED <<categories, products>>
            ELSE /\ DOMAIN categories' = CatIds \ {id}
                 /\ \A c \in CatIds \ {id} : categories'[c] = categories[c]
                 /\ UNCHANGED products

C21_Delete == [][C21_DeleteStep]_vars

\* a category was deleted while another category's stored count differs
\* from what a recompute yields, and the count is still off
C21_DeletedNoRecount ==
    /\ last.op = "CategoryDelete"
    /\ last.res = "ok"
    /\ last.id \notin CatIds
    /\ recalc_desc_product_counts(categories, products) # categories

\* ------------------------------------------------------ slugs as given
\* Category requests whose slug is any text a JSON body can carry: empty,
\* plain, or holding the path separator.
SlugInputs == {<<>>, <<"a">>, <<"b">>, <<"a", "/", "b">>}

SlugPutBodies ==
    [has_slug : {FALSE}, slug : {<<>>}, parent_id : 0..MoveCats]
        \cup [has_slug : {TRUE}, slug : SlugInputs, parent_id : 0..MoveCats]

InitSlug ==
    /\ InitDb
    /\ InitIdle
    /\ watch = {"CategoryCreate", "CategoryPut"}

NextSlug ==
    \/ /\ \E slug \in SlugInputs, parent_id \in 0..MoveCats : CategoryCreate(slug, parent_id)
       /\ Within(MoveCats, MaxProds)
       /\ UNCHANGED auxVars
    \/ /\ \E id \in 1..MoveCats, body \in SlugPutBodies : CategoryPut(id, body)
       /\ Within(MoveCats, MaxProds)
       /\ UNCHANGED auxVars

SpecSlug == InitSlug /\ [][NextSlug]_vars

\* C22: after any sequence of category Create and Rename/Move operations,
\* no two distinct categories have the same path.
C22_PathsDistinct ==
    \A c \in CatIds, d \in CatIds : c # d => categories[c].path # categories[d].path

\* the slug is one of an existing category and the parent, if given, exists
DuplicateCreate(slug, parent_id) ==
    /\ slug # <<>>
    /\ SlugTaken(categories, slug, NULL)
    /\ parent_id # NULL => parent_id \in CatIds

\* C23: a category Create with a slug already used by another category
\* fails with the DuplicateSlug conflict error and adds no category.
C23_DuplicateStep ==
    \A slug \in SlugInputs, parent_id \in 0..MoveCats :
        (/\ DuplicateCreate(slug, parent_id)
         /\ last'.op = "CategoryCreate"
         /\ CategoryCreate(slug, parent_id))
          => /\ last'.res = "DUPLICATE_SLUG"
             /\ UNCHANGED categories

C23_DuplicateSlug == [][C23_DuplicateStep]_vars

\* the slug is empty or contains "/"
InvalidSlug(slug) == slug = <<>> \/ \E i \in DOMAIN slug : slug[i] = SlashStr[1]

\* C24: category Create and Rename/Move with a slug that is empty or
\* contains "/" are refused and persist nothing.
C24_InvalidStep ==
    /\ \A slug \in SlugInputs, parent_id \in 0..MoveCats :
          (/\ InvalidSlug(slug)
           /\ last'.op = "CategoryCreate"
           /\ CategoryCreate(slug, parent_id))
            => /\ last'.res # "ok"
               /\ UNCHANGED categories
    /\ \A id \in CatIds, body \in SlugPutBodies :
          (/\ body.has_slug
           /\ InvalidSlug(body.slug)
           /\ last'.op = "CategoryPut"
           /\ CategoryPut(id, body))
            => /\ last'.res # "ok"
               /\ UNCHANGED categories

C24_InvalidSlug == [][C24_InvalidStep]_vars

\* ------------------------------------------------- product documents
\* doc_url is NULL or a URL; a URL is a number here, and the URL of an
\* uploaded file is one no request body names.
BodyUrl == 1
UploadUrl == 2

\* the columns of a new product row that INSERT INTO products does not
\* name take their defaults: has_docs BOOLEAN NOT NULL DEFAULT FALSE
NewProductCols(is_featured, doc_url) ==
    [is_featured |-> is_featured, doc_url |-> doc_url, has_docs |-> FALSE]

\* POST /admin/products with body.is_featured and body.doc_url
ProductCreateFull(is_active, category_id, price, is_featured, doc_url) ==
    /\ ProductCreate(is_active, category_id, price)
    /\ product_cols' = IF nextProdId' # nextProdId
                       THEN InsertRow(product_cols, nextProdId,
                                      NewProductCols(is_featured, doc_url))
                       ELSE product_cols
    /\ UNCHANGED category_cols

\* PUT /admin/products/:id with body.is_featured and body.doc_url: the UPDATE
\* sets doc_url=$10 and does not name has_docs
ProductPutFull(id, is_active, category_id, price, is_featured, doc_url) ==
    /\ ProductPut(id, is_active, category_id, price)
    /\ product_cols' = IF id \in ProdIds /\ category_id \in CatIds
                       THEN [product_cols EXCEPT ![id].is_featured = is_featured,
                                                 ![id].doc_url = doc_url]
                       ELSE product_cols
    /\ UNCHANGED category_cols

\* PATCH /admin/products/:id with body.doc_url: doc_url = body.doc_url ??
\* oldP.doc_url, and the UPDATE does not name has_docs
ProductPatchFull(id, body, doc_url) ==
    /\ ProductPatch(id, body)
    /\ product_cols' =
           IF /\ id \in ProdIds
              /\ (IF body.category_id # NULL THEN body.category_id
                  ELSE products[id].category_id) \in CatIds
              /\ doc_url # NULL
           THEN [product_cols EXCEPT ![id].doc_url = doc_url]
           ELSE product_cols
    /\ UNCHANGED category_cols

\* an UPDATE of products that changes neither is_active nor category_id
\* (trg_products_counts fires and adjusts nothing)
DocUpdate(op, id, doc_url, has_docs) ==
    /\ IF id \notin ProdIds
       THEN /\ last' = Resp(op, id, "NOT_FOUND")
            /\ UNCHANGED <<categories, product_cols>>
       ELSE /\ product_cols' = [product_cols EXCEPT ![id].doc_url = doc_url,
                                                    ![id].has_docs = has_docs]
            /\ categories' = TrgProductUpdate(categories, products[id], products[id])
            /\ last' = Resp(op, id, "ok")
    /\ UNCHANGED <<nextCatId, products, nextProdId, category_cols>>

\* PATCH /admin/products/:id/doc: has_docs = ($1 IS NOT NULL)
ProductDocSet(id, doc_url) == DocUpdate("ProductDocSet", id, doc_url, doc_url # NULL)

\* DELETE /admin/products/:id/doc
ProductDocClear(id) == DocUpdate("ProductDocClear", id, NULL, FALSE)

\* POST /admin/products/:id/doc with a PDF file: has_docs = TRUE
ProductDocUpload(id) == DocUpdate("ProductDocUpload", id, UploadUrl, TRUE)

DocInputs == {NULL, BodyUrl}

NextDocs ==
    \/ /\ CategoryCreate(<<"a">>, NULL)
       /\ Within(1, 2)
       /\ UNCHANGED auxVars
    \/ /\ \E a \in BOOLEAN, f \in BOOLEAN, doc_url \in DocInputs :
              ProductCreateFull(a, 1, ListPrice, f, doc_url)
       /\ Within(1, 2)
       /\ UNCHANGED flowVars
    \/ /\ \E id \in ProdIds, a \in BOOLEAN, f \in BOOLEAN, doc_url \in DocInputs :
              ProductPutFull(id, a, 1, ListPrice, f, doc_url)
       /\ UNCHANGED flowVars
    \/ /\ \E id \in ProdIds, body \in ProductPatchBodies, doc_url \in DocInputs :
              ProductPatchFull(id, body, doc_url)
       /\ UNCHANGED flowVars
    \/ /\ \E id \in ProdIds, doc_url \in DocInputs : ProductDocSet(id, doc_url)
       /\ UNCHANGED flowVars
    \/ /\ \E id \in ProdIds : ProductDocClear(id)
       /\ UNCHANGED flowVars
    \/ /\ \E id \in ProdIds : ProductDocUpload(id)
       /\ UNCHANGED flowVars

SpecDocs == Init /\ [][NextDocs]_vars

\* C25: after any sequence of product create, PUT, PATCH and document set,
\* upload and clear operations, every product has has_docs = true exactly
\* when its doc_url is non-null.
C25_HasDocs ==
    \A p \in DOMAIN product_cols :
        product_cols[p].has_docs <=> product_cols[p].doc_url # NULL

\* ------------------------------------------------------ category tree
\* POST /admin/categories with body.is_active and body.featured_only
CategoryCreateFull(slug, parent_id, is_active, featured_only) ==
    /\ CategoryCreate(slug, parent_id)
    /\ category_cols' = IF nextCatId' # nextCatId
                        THEN InsertRow(category_cols, nextCatId,
                                       [is_active |-> is_active,
                                        featured_only |-> featured_only])
                        ELSE category_cols
    /\ UNCHANGED product_cols

\* PUT /admin/categories/:id reaches its UPDATE (statement 5)
PutReachesUpdate(id, body) ==
    /\ id \in CatIds
    /\ LET old == categories[id]
           slug == BodySlug(body, old)
           parent_id == BodyParent(body, old)
       IN  /\ slug # <<>>
           /\ ~(slug # old.slug /\ SlugTaken(categories, slug, id))
           /\ parent_id # NULL => parent_id \in CatIds

\* PUT /admin/categories/:id with body.is_active and body.featured_only: the
\* UPDATE sets is_active=$5, featured_only=$6 on the own row
CategoryPutFull(id, body, is_active, featured_only) ==
    /\ CategoryPut(id, body)
    /\ category_cols' = IF PutReachesUpdate(id, body)
                        THEN [category_cols EXCEPT ![id] =
                                 [is_active |-> is_active,
                                  featured_only |-> featured_only]]
                        ELSE category_cols
    /\ UNCHANGED product_cols

\* GET /categories/tree: rows are the active categories; a row is a root
\* when its parent_id is null or names no row of the result, and a child of
\* its parent's node otherwise.  The answer is the roots, each with its
\* children nested; the order of siblings is left out.
TreeRows == {c \in CatIds : category_cols[c].is_active}

TreeRoots ==
    {c \in TreeRows : categories[c].parent_id = NULL
                        \/ categories[c].parent_id \notin TreeRows}

TreeChildren(n) ==
    {c \in TreeRows : categories[c].parent_id # NULL /\ categories[c].parent_id = n}

\* the nodes of the answer: the roots and everything nested under them
RECURSIVE TreeNodes(_, _)
TreeNodes(found, k) ==
    IF k = 0 THEN found
    ELSE TreeNodes(found \cup UNION {TreeChildren(n) \ TreeRoots : n \in found}, k - 1)

Tree == TreeNodes(TreeRoots, Cardinality(TreeRows))

NextTree ==
    \/ /\ \E slug \in Slugs, parent_id \in ParentInputs, a \in BOOLEAN :
              CategoryCreateFull(slug, parent_id, a, FALSE)
       /\ Within(MaxCats, MaxProds)
       /\ UNCHANGED flowVars
    \/ /\ \E id \in 1..MaxCats, body \in CategoryPutBodies, a \in BOOLEAN :
              CategoryPutFull(id, body, a, FALSE)
       /\ Within(MaxCats, MaxProds)
       /\ UNCHANGED flowVars

SpecTree == Init /\ [][NextTree]_vars

\* C26: for any stored parent_id and is_active values, every active category
\* appears in the forest Tree() returns, as a root or among the children of
\* its parent, and an active category whose parent is missing or inactive
\* is a root.
C26_TreeComplete ==
    /\ \A c \in CatIds : category_cols[c].is_active => c \in Tree
    /\ \A c \in CatIds :
          (/\ category_cols[c].is_active
           /\ categories[c].parent_id # NULL
           /\ (categories[c].parent_id \notin CatIds
               \/ ~category_cols[categories[c].parent_id].is_active))
            => c \in TreeRoots

\* category a is reached from category c by following parent_id upwards
RECURSIVE ParentChain(_, _)
ParentChain(c, k) ==
    IF k = 0 \/ c \notin CatIds \/ categories[c].parent_id = NULL THEN {}
    ELSE {categories[c].parent_id} \cup ParentChain(categories[c].parent_id, k - 1)

\* C30: after any sequence of category Create and Rename/Move operations
\* the parent_id relation is acyclic: no category is its own parent or the
\* parent of one of its own ancestors.
C30_Acyclic ==
    \A c \in CatIds : c \notin ParentChain(c, Cardinality(CatIds))

\* ---------------------------------------------------- subtree listing
\* GET /categories/:slug/products: SELECT ... FROM categories WHERE slug=$1
\* AND is_active=true
ListingCategory(slug) ==
    {c \in CatIds : categories[c].slug = slug /\ category_cols[c].is_active}

\* the WHERE clause of both queries of the listing, for category c:
\* p.is_active=true AND (c.path = $1 OR c.path LIKE $1 || '/%'), and
\* AND p.is_featured=true when the category is featured_only
ListingSelects(c, p) ==
    /\ products[p].is_active
    /\ products[p].category_id \in CatIds
    /\ SqlUnder(categories[products[p].category_id].path, categories[c].path)
    /\ category_cols[c].featured_only => product_cols[p].is_featured

\* the products of all pages of the listing
ListingProducts(c) == {p \in ProdIds : ListingSelects(c, p)}

\* SELECT COUNT(*)::int AS cnt ...; total = cntRows[0]?.cnt || 0
ListingTotal(c) == Cardinality({p \in ProdIds : ListingSelects(c, p)})

NextListing ==
    \/ /\ \E slug \in Slugs, parent_id \in 0..MoveCats, a \in BOOLEAN, fo \in BOOLEAN :
              CategoryCreateFull(slug, parent_id, a, fo)
       /\ Within(MoveCats, MaxProds)
       /\ UNCHANGED flowVars
    \/ /\ \E a \in BOOLEAN, c \in CatIds, f \in BOOLEAN :
              ProductCreateFull(a, c, ListPrice, f, NULL)
       /\ Within(MoveCats, MaxProds)
       /\ UNCHANGED flowVars

SpecListing == Init /\ [][NextListing]_vars

\* the products the listing of category c is to return
ListingReference(c) ==
    {p \in ProdIds :
        /\ products[p].is_active
        /\ isDescendantOrSelf(categories[products[p].category_id].path, categories[c].path)
        /\ category_cols[c].featured_only => product_cols[p].is_featured}

\* C27: the subtree listing of an active category returns exactly the active
\* products whose category path equals or is under the category's path,
\* only the is_featured ones when the category is featured_only, and its
\* total is the number of products so selected.
C27_Listing ==
    \A slug \in Slugs : \A c \in ListingCategory(slug) :
        /\ ListingProducts(c) = ListingReference(c)
        /\ ListingTotal(c) = Cardinality(ListingReference(c))

\* --------------------------------------------------------- pagination
\* A JavaScript number is NaN or an integer.
NaN == [nan |-> TRUE, v |-> 0]
JsInt(n) == [nan |-> FALSE, v |-> n]

DigitChars == <<"0", "1", "2", "3", "4", "5", "6", "7", "8", "9">>
IsDigit(ch) == \E d \in DOMAIN DigitChars : DigitChars[d] = ch
DigitVal(ch) == (CHOOSE d \in DOMAIN DigitChars : DigitChars[d] = ch) - 1

\* the value of the longest run of digits that starts s, and NaN for none
RECURSIVE ParseDigits(_, _, _)
ParseDigits(s, acc, seen) ==
    IF s = <<>> \/ ~IsDigit(Head(s))
    THEN IF seen THEN JsInt(acc) ELSE NaN
    ELSE ParseDigits(Tail(s), 10 * acc + DigitVal(Head(s)), TRUE)

\* parseInt(s, 10): an optional sign, then decimal digits; what follows the
\* digits is ignored
parseInt(s) ==
    IF s # <<>> /\ Head(s) = "-"
    THEN LET n == ParseDigits(Tail(s), 0, FALSE)
         IN  IF n.nan THEN NaN ELSE JsInt(0 - n.v)
    ELSE IF s # <<>> /\ Head(s) = "+"
    THEN ParseDigits(Tail(s), 0, FALSE)
    ELSE ParseDigits(s, 0, FALSE)

\* Math.max(a, x) and Math.min(a, x) with a an integer: NaN when x is NaN
MathMax(a, x) == IF x.nan THEN NaN ELSE JsInt(IF x.v >= a THEN x.v ELSE a)
MathMin(a, x) == IF x.nan THEN NaN ELSE JsInt(IF x.v <= a THEN x.v ELSE a)

\* req.query.x || dflt: the parameter, or the default when it is absent or ""
OrDefault(s, dflt) == IF s = <<>> THEN dflt ELSE s

\* const page = Math.max(1, parseInt(req.query.page || "1", 10))
PageOf(page_q) == MathMax(1, parseInt(OrDefault(page_q, <<"1">>)))

\* const limit = Math.min(100, Math.max(1, parseInt(req.query.limit || "20", 10)))
LimitOf(limit_q) == MathMin(100, MathMax(1, parseInt(OrDefault(limit_q, <<"2", "0">>))))

\* Math.ceil(total / limit)
PagesOf(total, limit) ==
    IF limit.nan THEN NaN ELSE JsInt((total + limit.v - 1) \div limit.v)

\* ORDER BY p.id DESC
RECURSIVE IdDesc(_)
IdDesc(S) ==
    IF S = {} THEN <<>>
    ELSE LET m == CHOOSE x \in S : \A y \in S : y <= x
         IN  <<m>> \o IdDesc(S \ {m})

\* LIMIT limit OFFSET (page - 1) * limit
PageSlice(all, page, limit) ==
    LET offset == (page - 1) * limit
        upto == IF offset + limit <= Len(all) THEN offset + limit ELSE Len(all)
    IN  SubSeq(all, offset + 1, upto)

\* the two queries and the answer, for the products S; a NaN limit or offset
\* is sent as the text NaN, which the database refuses as a bigint
PagedAnswer(op, S, page, limit) ==
    IF page.nan \/ limit.nan
    THEN [op |-> op, res |-> "ERROR", page |-> page, limit |-> limit,
          total |-> 0, pages |-> NaN, products |-> <<>>]
    ELSE [op |-> op, res |-> "ok", page |-> page, limit |-> limit,
          total |-> Cardinality(S), pages |-> PagesOf(Cardinality(S), limit),
          products |-> PageSlice(IdDesc(S), page.v, limit.v)]

listingRest == <<categories, nextCatId, products, nextProdId, last, watch, life,
                 orders, order_items, nextOrderId, reqs, mv, adj, rc,
                 category_cols, product_cols, cr, dl, call>>

\* GET /categories/:slug/products?page=..&limit=..
SubtreeListing(slug, page_q, limit_q) ==
    LET cat == ListingCategory(slug)
    IN  listing' =
            IF cat = {}
            THEN [op |-> "SubtreeListing", res |-> "NOT_FOUND", page |-> JsInt(1),
                  limit |-> JsInt(1), total |-> 0, pages |-> JsInt(0),
                  products |-> <<>>]
            ELSE PagedAnswer("SubtreeListing",
                             ListingProducts(CHOOSE c \in cat : TRUE),
                             PageOf(page_q), LimitOf(limit_q))

\* GET /products?category=..&page=..&limit=.. (no q): an unknown category
\* is answered at once with no products and pages 0
Search(catSlug, page_q, limit_q) ==
    LET cat == ListingCategory(catSlug)
        page == PageOf(page_q)
        limit == LimitOf(limit_q)
    IN  listing' =
            IF catSlug # <<>> /\ cat = {}
            THEN [op |-> "Search", res |-> "ok", page |-> page, limit |-> limit,
                  total |-> 0, pages |-> JsInt(0), products |-> <<>>]
            ELSE IF catSlug # <<>>
            THEN PagedAnswer("Search", ListingProducts(CHOOSE c \in cat : TRUE),
                             page, limit)
            ELSE PagedAnswer("Search", {p \in ProdIds : products[p].is_active},
                             page, limit)

QueryValues == {<<>>, <<"0">>, <<"1">>, <<"2">>, <<"-", "1">>, <<"2", "5", "0">>, <<"x">>}

NextPaging ==
    \/ /\ CategoryCreateFull(<<"a">>, NULL, TRUE, FALSE)
       /\ Within(1, 2)
       /\ UNCHANGED flowVars
    \/ /\ \E a \in BOOLEAN : ProductCreateFull(a, 1, ListPrice, FALSE, NULL)
       /\ Within(1, 2)
       /\ UNCHANGED flowVars
    \/ /\ \E slug \in {<<"a">>, <<"_">>}, page_q \in QueryValues, limit_q \in QueryValues :
              SubtreeListing(slug, page_q, limit_q)
       /\ UNCHANGED listingRest
    \/ /\ \E slug \in {<<>>, <<"a">>, <<"_">>}, page_q \in QueryValues, limit_q \in QueryValues :
              Search(slug, page_q, limit_q)
       /\ UNCHANGED listingRest

SpecPaging == Init /\ [][NextPaging]_vars

\* C28: for any page and limit query values, the subtree listing and search
\* use a page number >= 1 and a limit within [1,100], return at most limit
\* items, and report pages = ceil(total / limit).
C28_Pagination ==
    (listing.op # "none" /\ listing.res # "NOT_FOUND") =>
        /\ ~listing.page.nan /\ listing.page.v >= 1
        /\ ~listing.limit.nan /\ listing.limit.v \in 1..100
        /\ listing.res = "ok"
        /\ Len(listing.products) <= listing.limit.v
        /\ listing.pages = PagesOf(listing.total, listing.limit)

\* C29: a category update that changes neither slug nor parent_id, only the
\* other columns, leaves every category's path and desc_product_count
\* unchanged and fires no recompute: the categories table, the other columns
\* apart, is as before.
C29_KeepStep ==
    \A id \in CatIds, body \in CategoryPutBodies, a \in BOOLEAN :
        (/\ BodySlug(body, categories[id]) = categories[id].slug
         /\ BodyParent(body, categories[id]) = categories[id].parent_id
         /\ CategoryPutFull(id, body, a, FALSE))
          => UNCHANGED categories

C29_KeepsPaths == [][C29_KeepStep]_vars

\* ------------------------------------------------- the subtree rewrite
\* the path PUT /admin/categories/:id computes for the category (newPath)
PutNewPath(id, body) ==
    LET slug == BodySlug(body, categories[id])
        parent_id == BodyParent(body, categories[id])
    IN  IF parent_id # NULL
        THEN childPath(categories[parent_id].path, slug)
        ELSE rootPath(slug)

\* the category is moved to a place outside its own subtree
MovesOutside(id, body) ==
    LET parent_id == BodyParent(body, categories[id])
    IN  parent_id # NULL =>
            ~isDescendantOrSelf(categories[parent_id].path, categories[id].path)

\* C31: when Rename/Move changes category X's path from P to N, X ends with
\* path N, every category whose path was P + "/" + s ends with N + "/" + s,
\* and the path of every other category is unchanged.  Checked for moves
\* that start from paths satisfying the path invariant and that put X
\* outside its own subtree.
C31_RewriteStep ==
    \A id \in CatIds, body \in CategoryPutBodies :
        (/\ C2_PathInvariant
         /\ PutReachesUpdate(id, body)
         /\ MovesOutside(id, body)
         /\ PutNewPath(id, body) # categories[id].path
         /\ CategoryPut(id, body))
          => LET P == categories[id].path
                 N == PutNewPath(id, body)
             IN  /\ categories'[id].path = N
                 /\ \A c \in CatIds \ {id} :
                        categories'[c].path =
                            IF IsPrefix(P \o SlashStr, categories[c].path)
                            THEN N \o SubSeq(categories[c].path, Len(P) + 1,
                                             Len(categories[c].path))
                            ELSE categories[c].path

C31_SubtreeRewrite == [][C31_RewriteStep]_vars

\* ------------------------------------- a create beside a rename or move
\* POST /admin/categories one statement at a time; cr holds the handler's
\* locals between its statements.
createRest == <<nextProdId, products, last, watch, life, orders, order_items,
                nextOrderId, reqs, mv, adj, rc, category_cols, product_cols,
                listing, dl, call>>

\* the request has been answered
Created(c, res, id) == [c EXCEPT !.pc = "done", !.res = res, !.id = id]

\* the body is read; if (!name || !slug); let path = `root/${slug}`
CreateBegin(slug, parent_id) ==
    /\ cr.pc = "idle"
    /\ LET c == [pc |-> "insert", slug |-> slug, parent_id |-> parent_id,
                 path |-> rootPath(slug), res |-> "none", id |-> NULL]
       IN  cr' = IF slug = <<>> THEN Created(c, "NAME_SLUG_REQUIRED", NULL)
                 ELSE IF parent_id # NULL THEN [c EXCEPT !.pc = "parent"]
                 ELSE c
    /\ UNCHANGED <<categories, nextCatId>>

\* SELECT path FROM categories WHERE id = $1 (the parent)
CreateSelectParent ==
    /\ cr.pc = "parent"
    /\ cr' = IF cr.parent_id \notin CatIds
             THEN Created(cr, "PARENT_NOT_FOUND", NULL)
             ELSE [cr EXCEPT !.pc = "insert",
                             !.path = childPath(categories[cr.parent_id].path, cr.slug)]
    /\ UNCHANGED <<categories, nextCatId>>

\* INSERT INTO categories(...) VALUES(...) RETURNING *: refused by slug
\* UNIQUE and by parent_id REFERENCES categories(id)
CreateInsert ==
    /\ cr.pc = "insert"
    /\ IF \/ SlugTaken(categories, cr.slug, NULL)
          \/ (cr.parent_id # NULL /\ cr.parent_id \notin CatIds)
       THEN /\ cr' = Created(cr, "ERROR", NULL)
            /\ UNCHANGED <<categories, nextCatId>>
       ELSE /\ categories' = InsertRow(categories, nextCatId,
                                       [slug |-> cr.slug, parent_id |-> cr.parent_id,
                                        path |-> cr.path, desc_product_count |-> 0])
            /\ nextCatId' = nextCatId + 1
            /\ cr' = Created(cr, "ok", nextCatId)

\* slugs without characters special to LIKE or to regular expressions
PlainSlugs == {<<"a">>, <<"b">>}

\* bodies of a rename: a slug and no parent_id
RenameBodies == [has_slug : {TRUE}, slug : PlainSlugs, parent_id : {NULL}]

\* the statements of PUT /admin/categories/:id, one per step
MoveStatements ==
    \/ \E id \in 1..MaxCats, body \in RenameBodies : MoveSelectOld(id, body)
    \/ MoveCheckSlug
    \/ MoveSelectParent
    \/ MoveUpdateOwn /\ PathsFit(categories')
    \/ MoveUpdateSubtree /\ PathsFit(categories')

NextChild ==
    \/ /\ \E slug \in PlainSlugs : CategoryCreate(slug, NULL)
       /\ Within(1, 0)
       /\ UNCHANGED auxVars
    \/ /\ \E slug \in PlainSlugs \cup {<<>>}, parent_id \in ParentInputs :
              CreateBegin(slug, parent_id)
       /\ UNCHANGED createRest
    \/ /\ CreateSelectParent
       /\ UNCHANGED createRest
    \/ /\ CreateInsert
       /\ UNCHANGED createRest
    \/ /\ MoveStatements
       /\ UNCHANGED moveRest

SpecChild == Init /\ [][NextChild]_vars

\* C32: under any interleaving of a Create of a child under category X with
\* a Rename/Move of X, once both requests have completed the new child's
\* path is X's final path + "/" + the child's slug.
C32_ChildFollows ==
    (/\ cr.pc = "done" /\ cr.res = "ok" /\ mv.pc = "idle"
     /\ cr.parent_id # NULL)
      => categories[cr.id].path =
             childPath(categories[cr.parent_id].path, categories[cr.id].slug)

\* ------------------------------------------- a delete beside a create
\* DELETE /admin/categories/:id one statement at a time; dl holds the
\* handler's position between its statements.
deleteRest == <<nextCatId, nextProdId, products, last, watch, life, orders,
                order_items, nextOrderId, reqs, mv, adj, rc, category_cols,
                product_cols, listing, cr, call>>

\* the request has been answered
Deleted(id, res) == [pc |-> "done", id |-> id, res |-> res]

\* SELECT 1 FROM categories WHERE parent_id = $1 LIMIT 1
DeleteCheckChildren(id) ==
    /\ dl.pc = "idle"
    /\ dl' = IF \E c \in CatIds : categories[c].parent_id = id
             THEN Deleted(id, "HAS_CHILDREN")
             ELSE [pc |-> "products", id |-> id]
    /\ UNCHANGED categories

\* SELECT 1 FROM products WHERE category_id = $1 LIMIT 1
DeleteCheckProducts ==
    /\ dl.pc = "products"
    /\ dl' = IF \E p \in ProdIds : products[p].category_id = dl.id
             THEN Deleted(dl.id, "HAS_PRODUCTS")
             ELSE [pc |-> "delete", id |-> dl.id]
    /\ UNCHANGED categories

\* DELETE FROM categories WHERE id = $1; if (!rowCount) NOT_FOUND
DeleteStatement ==
    /\ dl.pc = "delete"
    /\ IF dl.id \notin CatIds
       THEN /\ dl' = Deleted(dl.id, "NOT_FOUND")
            /\ UNCHANGED categories
       ELSE /\ categories' = DeleteCategory(categories, products, dl.id)
            /\ dl' = Deleted(dl.id, "ok")

NextOrphan ==
    \/ /\ \E slug \in PlainSlugs : CategoryCreate(slug, NULL)
       /\ Within(MaxCats, 0)
       /\ UNCHANGED auxVars
    \/ /\ \E slug \in PlainSlugs \cup {<<>>}, parent_id \in ParentInputs :
              CreateBegin(slug, parent_id)
       /\ UNCHANGED createRest
    \/ /\ CreateSelectParent
       /\ UNCHANGED createRest
    \/ /\ CreateInsert
       /\ UNCHANGED createRest
    \/ /\ \E id \in 1..MaxCats : DeleteCheckChildren(id)
       /\ UNCHANGED deleteRest
    \/ /\ DeleteCheckProducts
       /\ UNCHANGED deleteRest
    \/ /\ DeleteStatement
       /\ UNCHANGED deleteRest

SpecOrphan == Init /\ [][NextOrphan]_vars

\* the path of category c without its last segment
PathOfParent(c) ==
    SubSeq(categories[c].path, 1,
           Len(categories[c].path) - Len(categories[c].slug) - 1)

\* every path that is not "root/" + slug extends the path of a stored category
NoOrphanPath ==
    \A c \in CatIds :
        PathOfParent(c) \o SlashStr # RootPrefix =>
            \E d \in CatIds : categories[d].path = PathOfParent(c)

\* C33: under any interleaving of Delete(X) with a Create of a child under
\* X, X is never removed while some category has parent_id = X, and no
\* category is left whose path extends the path of a category that no
\* longer exists.
C33_DeleteStep ==
    /\ \A X \in CatIds :
          X \notin DOMAIN categories' =>
              \A c \in CatIds : categories[c].parent_id # X
    /\ NoOrphanPath'

C33_NoOrphan == [][C33_DeleteStep]_vars

\* ------------------------------------------ two orders with one key
\* C34: when two PlaceOrder requests with the same idempotency key run
\* concurrently, one of them creates the order and the other completes with
\* that order's id and status duplicate; neither ends in an error.  Stated
\* for requests whose items pass validation.
C34_RaceNoError ==
    \A r1 \in DOMAIN reqs, r2 \in DOMAIN reqs :
        (/\ r1 # r2
         /\ reqs[r1].pc = "done" /\ reqs[r2].pc = "done"
         /\ Truthy(reqs[r1].body) /\ Truthy(reqs[r2].body)
         /\ reqs[r1].body.key = reqs[r2].body.key
         /\ reqs[r1].res \notin ValidationFailures
         /\ reqs[r2].res \notin ValidationFailures
         /\ reqs[r1].body.items[1].qty = Num(0, 1)
         /\ reqs[r2].body.items[1].qty = Num(0, 1))
          => \/ /\ reqs[r1].res = "created"
                /\ reqs[r2].res = "duplicate"
                /\ reqs[r2].order_id = reqs[r1].orderId
             \/ /\ reqs[r2].res = "created"
                /\ reqs[r1].res = "duplicate"
                /\ reqs[r1].order_id = reqs[r2].orderId

\* ----------------------------------------------- a move to the top level
\* C35: Rename/Move with parent_id explicitly null makes the category
\* top-level: afterwards its parent_id is null and its path is "root/" +
\* slug.  (body.parent_id = NULL stands for a body whose parent_id is null.)
C35_TopLevelStep ==
    \A id \in CatIds, body \in CategoryPutBodies :
        (/\ body.parent_id = NULL
         /\ PutReachesUpdate(id, body)
         /\ CategoryPut(id, body))
          => /\ categories'[id].parent_id = NULL
             /\ categories'[id].path = rootPath(BodySlug(body, categories[id]))

C35_MoveToTop == [][C35_TopLevelStep]_vars

\* --------------------------------------------- a rename or move that fails
InitPut ==
    /\ InitDb
    /\ InitIdle
    /\ watch = {"CategoryCreate", "CategoryPut"}

NextPut ==
    \/ /\ \E slug \in Slugs, parent_id \in ParentInputs : CategoryCreate(slug, parent_id)
       /\ Within(2, 1)
       /\ UNCHANGED auxVars
    \/ /\ \E c \in CatIds : ProductCreate(TRUE, c, ListPrice)
       /\ Within(2, 1)
       /\ UNCHANGED auxVars
    \/ /\ \E id \in 1..MaxCats, body \in CategoryPutBodies : CategoryPut(id, body)
       /\ Within(2, 1)
       /\ UNCHANGED auxVars

SpecPut == InitPut /\ [][NextPut]_vars

\* the responses of a Rename/Move that fails: NotFound, DuplicateSlug,
\* ParentNotFound
PutFailures == {"NOT_FOUND", "SLUG_ALREADY_EXISTS", "PARENT_NOT_FOUND"}

\* C36: a Rename/Move that fails with NotFound, DuplicateSlug or
\* ParentNotFound leaves every category's slug, parent_id, path and
\* desc_product_count unchanged.
C36_FailStep ==
    (last'.op = "CategoryPut" /\ last'.res \in PutFailures)
        => UNCHANGED <<categories, category_cols>>

C36_FailKeeps == [][C36_FailStep]_vars

\* a rename to the slug of another category was refused, in a catalogue
\* with a counted product
C36_Refused ==
    /\ last.op = "CategoryPut"
    /\ last.res = "SLUG_ALREADY_EXISTS"
    /\ last.id \in CatIds
    /\ \E c \in CatIds : categories[c].desc_product_count > 0

\* ------------------------------------------------------------ a create
\* C37: Create with an existing parent (or with none) adds exactly one
\* category whose path is parent.path + "/" + slug (or "root/" + slug) and
\* whose desc_product_count is 0, and leaves every existing category
\* unchanged; with a parent id that does not exist it fails with
\* ParentNotFound and adds nothing.  Stated for a slug that is given and not
\* in use.
C37_CreateStep ==
    \A slug \in Slugs, parent_id \in ParentInputs :
        (/\ ~SlugTaken(categories, slug, NULL)
         /\ CategoryCreate(slug, parent_id))
          => IF parent_id = NULL \/ parent_id \in CatIds
             THEN /\ last'.res = "ok"
                  /\ DOMAIN categories' = CatIds \cup {last'.id}
                  /\ last'.id \notin CatIds
                  /\ \A c \in CatIds : categories'[c] = categories[c]
                  /\ categories'[last'.id] =
                         [slug |-> slug, parent_id |-> parent_id,
                          desc_product_count |-> 0,
                          path |-> IF parent_id = NULL THEN rootPath(slug)
                                   ELSE childPath(categories[parent_id].path, slug)]
             ELSE /\ last'.res = "PARENT_NOT_FOUND"
                  /\ UNCHANGED categories

C37_Create == [][C37_CreateStep]_vars

\* a category was created under a parent that counts a product
C37_ChildCreated ==
    /\ last.op = "CategoryCreate"
    /\ last.res = "ok"
    /\ last.id \in CatIds
    /\ categories[last.id].parent_id \in CatIds
    /\ categories[categories[last.id].parent_id].desc_product_count > 0

\* ------------------------------------------------ repeated soft delete
InitSoftDelete ==
    /\ InitDb
    /\ InitIdle
    /\ watch = {"ProductSoftDelete"}

NextSoftDelete ==
    \/ /\ \E slug \in Slugs, parent_id \in 0..2 : CategoryCreate(slug, parent_id)
       /\ Within(2, 2)
       /\ UNCHANGED auxVars
    \/ /\ \E a \in BOOLEAN, c \in CatIds : ProductCreate(a, c, ListPrice)
       /\ Within(2, 2)
       /\ UNCHANGED auxVars
    \/ /\ \E id \in 1..2 : ProductSoftDelete(id)
       /\ UNCHANGED auxVars

SpecSoftDelete == InitSoftDelete /\ [][NextSoftDelete]_vars

\* C38: soft-deleting an already inactive product changes no
\* desc_product_count (and no row at all), so repeating DELETE
\* /admin/products/:id decrements the counts of the product's category only
\* the first time: the soft delete of an active product takes 1 off the
\* count of its category, one that found it inactive takes nothing.
C38_RepeatStep ==
    \A id \in ProdIds :
        ProductSoftDelete(id) =>
            /\ ~products'[id].is_active
            /\ IF products[id].is_active
               THEN Count(products[id].category_id) > 0 =>
                        categories'[products[id].category_id].desc_product_count
                            = Count(products[id].category_id) - 1
               ELSE UNCHANGED <<categories, products>>

C38_SoftDeleteOnce == [][C38_RepeatStep]_vars

\* one of two active products of a category was soft-deleted, and the
\* category still counts the other
C38_DeletedOnce ==
    /\ last.op = "ProductSoftDelete"
    /\ last.res = "ok"
    /\ ~products[last.id].is_active
    /\ \E p \in ProdIds :
          /\ products[p].is_active
          /\ products[p].category_id = products[last.id].category_id
          /\ Count(products[p].category_id) = 1

\* --------------------------------- the counter functions and the trigger
\* recalc_desc_product_counts and inc_desc_product_count_by_path as the
\* database runs them: the UPDATE writes its rows, then trg_categories_recalc
\* (AFTER UPDATE, FOR EACH ROW) runs once per row written, and a trigger
\* whose test passes performs recalc_desc_product_counts, whose rows owe
\* their triggers in turn.
callRest == <<nextCatId, products, nextProdId, last, watch, life, orders,
              order_items, nextOrderId, reqs, mv, adj, rc, category_cols,
              product_cols, listing, cr, dl>>

\* the trigger invocations owed for the rows S of an UPDATE from cs to new
RowTriggers(cs, new, S) == {[id |-> c, old |-> cs[c], new |-> new[c]] : c \in S}

\* SELECT recalc_desc_product_counts(): the UPDATE joins every category
CallRecalc ==
    /\ call.pc = "idle"
    /\ categories' = recalc_desc_product_counts(categories, products)
    /\ call' = [pc |-> "triggers", fn |-> "recalc", depth |-> 1,
                pending |-> RowTriggers(categories, categories', CatIds)]

\* PERFORM inc_desc_product_count_by_path(cat_path, delta)
CallInc(cat_path, delta) ==
    /\ call.pc = "idle"
    /\ categories' = inc_desc_product_count_by_path(categories, cat_path, delta)
    /\ call' = [pc |-> "triggers", fn |-> "inc", depth |-> 1,
                pending |-> RowTriggers(categories, categories',
                                {c \in CatIds : SqlUnder(cat_path, categories[c].path)})]

\* trg_categories_after_update_recalc for one row written
TriggerRow(t) ==
    /\ call.pc = "triggers"
    /\ t \in call.pending
    /\ IF TrgCategoryRecalcFires(t.old, t.new)
       THEN \* PERFORM recalc_desc_product_counts()
            /\ call.depth < MaxDepth
            /\ categories' = recalc_desc_product_counts(categories, products)
            /\ call' = [call EXCEPT
                   !.depth = @ + 1,
                   !.pending = (@ \ {t}) \cup
                               RowTriggers(categories, categories', CatIds)]
       ELSE /\ call' = [call EXCEPT !.pending = @ \ {t}]
            /\ UNCHANGED categories

\* the database runs one of the triggers owed
TriggerNext ==
    /\ call.pc = "triggers"
    /\ \E t \in call.pending : TriggerRow(t)

\* every trigger has run: the function returns
CallReturn ==
    /\ call.pc = "triggers"
    /\ call.pending = {}
    /\ call' = [pc |-> "returned", fn |-> call.fn, depth |-> call.depth]
    /\ UNCHANGED categories

\* the caller goes on
CallNext ==
    /\ call.pc = "returned"
    /\ call' = NoCall
    /\ UNCHANGED categories

NextCall ==
    \/ /\ call.pc = "idle"
       /\ \E slug \in Slugs, parent_id \in 0..2 : CategoryCreate(slug, parent_id)
       /\ Within(2, 1)
       /\ UNCHANGED auxVars
    \/ /\ call.pc = "idle"
       /\ \E a \in BOOLEAN, c \in CatIds : ProductCreate(a, c, ListPrice)
       /\ Within(2, 1)
       /\ UNCHANGED auxVars
    \/ /\ CallRecalc
       /\ UNCHANGED callRest
    \/ /\ \E c \in CatIds, delta \in {-1, 1} : CallInc(categories[c].path, delta)
       /\ CountsFit(categories')
       /\ UNCHANGED callRest
    \/ /\ TriggerNext
       /\ UNCHANGED callRest
    \/ /\ CallReturn
       /\ UNCHANGED callRest
    \/ /\ CallNext
       /\ UNCHANGED callRest

\* the database runs the row triggers of a statement and returns
CallFairness ==
    /\ WF_vars(TriggerNext /\ UNCHANGED callRest)
    /\ WF_vars(CallReturn /\ UNCHANGED callRest)

SpecCall == Init /\ [][NextCall]_vars /\ CallFairness

\* C39: FullRecompute and AdjustAlongAncestry always terminate: every call
\* returns, and the triggers fired by the category rows it wrote started no
\* further recompute.
C39_Terminates ==
    (call.pc = "triggers") ~> (call.pc = "returned" /\ call.depth = 1)

\* an adjustment that changed a count has returned
C39_Returned ==
    /\ call.pc = "returned"
    /\ call.fn = "inc"
    /\ \E c \in CatIds : categories[c].desc_product_count > 0

====
